---------------------------- MODULE Spec2Model ----------------------------
(***************************************************************************)
(* A model of libtwirc (src/src/libtwirc.c): the reassembly of CR LF       *)
(* terminated messages out of received byte spans, the decoding of one     *)
(* message into an event, the dispatch of events, the connection status    *)
(* flags and the epoll driven tick.                                        *)
(*                                                                         *)
(* A C string is a sequence of one-character strings without the byte NUL; *)
(* a received span is a sequence of bytes that may hold NUL.  A pointer    *)
(* that may be NULL is a sequence of length 0 (NULL) or 1 (the pointee).   *)
(* Every C function that reads or writes the twirc_state is an operator    *)
(* from a state record s to the state record after the call.               *)
(***************************************************************************)
EXTENDS Integers, Sequences, FiniteSets, TLC

VARIABLES
    status,     \* state->status, the TWIRC_STATUS_* bit mask
    running,    \* state->running
    buffer,     \* state->buffer, the backlog (a C string)
    callbacks,  \* state->callbacks, slot -> handler
    net,        \* the socket behind state->socket_fd
    wire,       \* bytes the server has sent that no recv() has returned yet
    pc,         \* the caller's position: "idle", or "drain" inside the recv loop
    ev,         \* the event mask libtwirc_handle_event is working on
    log,        \* what the library did since the last successful twirc_connect,
                \* in order: the connect, sends, messages, callbacks
    rx,         \* the backlog at that twirc_connect and every byte recv() has
                \* returned since
    fault,      \* the process has run into undefined behaviour
    budget,     \* what the environment and the caller may still do
    spans,      \* the spans a caller of libtwirc_process_data has fed to it
    looping     \* the caller is inside twirc_loop

vars == <<status, running, buffer, callbacks, net, wire, pc, ev, log, rx,
          fault, budget, spans, looping>>

---------------------------------------------------------------------------
(* Program constants. *)

TWIRC_STATUS_DISCONNECTED == 0
TWIRC_STATUS_CONNECTING == 1
TWIRC_STATUS_CONNECTED == 2
TWIRC_STATUS_AUTHENTICATING == 4
TWIRC_STATUS_AUTHENTICATED == 8
TWIRC_MESSAGE_SIZE == 2048
TWIRC_BUFFER_SIZE == TWIRC_MESSAGE_SIZE
TWIRC_NUM_TAGS == 16
TWIRC_NUM_PARAMS == 4

(* The bytes the code tests for.  NUL and SOH (0x01) have no string escape. *)
CR == "\r"
LF == "\n"
NUL == "NUL"
SOH == "SOH"
SP == " "
CRLF == <<CR, LF>>

NULL == <<>>
Ptr(x) == <<x>>

---------------------------------------------------------------------------
(* The status bit mask: x & b and x | b for a single bit b. *)

HasFlag(x, b) == (x \div b) % 2 = 1
SetFlag(x, b) == IF HasFlag(x, b) THEN x ELSE x + b

---------------------------------------------------------------------------
(* C string primitives, with 0-based offsets as in the source. *)

Min(S) == CHOOSE m \in S : \A n \in S : m <= n

Take(str, n) == SubSeq(str, 1, n)
Drop(str, n) == SubSeq(str, n + 1, Len(str))

(* strstr(): the offset of the first occurrence of sep in str, -1 for NULL. *)
strstr(str, sep) ==
    LET at == {i \in 0..(Len(str) - Len(sep)) :
                   SubSeq(str, i + 1, i + Len(sep)) = sep}
    IN  IF at = {} THEN -1 ELSE Min(at)

(* strnlen(src + off, max): bytes before the first NUL, at most max. *)
strnlen(src, off, max) ==
    LET nul == {n \in 0..(max - 1) : src[off + n + 1] = NUL}
    IN  IF nul = {} THEN max ELSE Min(nul)

---------------------------------------------------------------------------
(* The reassembler. *)

(* libtwirc_next_chunk(dest, dlen, src, slen, off): the chunk copied to     *)
(* dest and the value returned; (size_t) -1 reaches the caller's int as -1. *)
(* dest = NULL stands for a dest left as it was.                            *)
libtwirc_next_chunk(dlen, src, slen, off) ==
    LET chunk_len == slen - off
        max_len == IF dlen < chunk_len THEN dlen ELSE chunk_len
        cpy_len == strnlen(src, off, max_len)
        new_off == off + cpy_len + 1
    IN  IF chunk_len <= 0 THEN [dest |-> NULL, ret |-> -1]
        ELSE IF cpy_len = dlen THEN [dest |-> Ptr(<<>>), ret |-> -1]
        ELSE [dest |-> Ptr(SubSeq(src, off + 1, off + cpy_len)),
              ret |-> IF new_off >= slen THEN slen ELSE new_off]

(* strcat(state->buffer, chunk): writing past the 2 * TWIRC_MESSAGE_SIZE     *)
(* bytes of the buffer is undefined.                                         *)
strcat_buffer(s, chunk) ==
    [s EXCEPT !.buffer = @ \o chunk,
              !.fault = @ \/ Len(s.buffer) + Len(chunk) + 1 > 2 * TWIRC_MESSAGE_SIZE]

(* An append stage that takes the span for one string: strcat(state->buffer, *)
(* buf) stops at the first NUL of the span.                                  *)
AppendChunks_one_string(s, buf, len, off) == strcat_buffer(s, Take(buf, strnlen(buf, 0, len)))

(* The append loop of libtwirc_process_data. *)
RECURSIVE AppendChunks(_, _, _, _)
AppendChunks(s, buf, len, off) ==
    LET r == libtwirc_next_chunk(len + 1, buf, len, off)
    IN  IF r.ret > 0
        THEN AppendChunks(strcat_buffer(s, r.dest[1]), buf, len, r.ret)
        ELSE s

(* libtwirc_shift_token with a memmove that skips one byte of the separator  *)
(* instead of strlen(sep).                                                  *)
libtwirc_shift_token_skips_one(src, sep) ==
    LET sep_pos == strstr(src, sep)
        tok_len == sep_pos
    IN  IF sep_pos = -1
        THEN [dest |-> NULL, src |-> src, ret |-> 0]
        ELSE [dest |-> Ptr(Take(src, tok_len)),
              src |-> Drop(src, tok_len + 1),
              ret |-> tok_len]

(* A libtwirc_shift_token that hands out what is left in src as a token      *)
(* when src holds no separator.                                              *)
libtwirc_shift_token_takes_rest(src, sep) ==
    LET sep_pos == strstr(src, sep)
        tok_len == sep_pos
    IN  IF sep_pos = -1
        THEN [dest |-> Ptr(src), src |-> <<>>, ret |-> Len(src)]
        ELSE [dest |-> Ptr(Take(src, tok_len)),
              src |-> Drop(src, tok_len + Len(sep)),
              ret |-> tok_len]

(* libtwirc_shift_token(dest, src, sep): the token copied to dest (NULL:     *)
(* dest untouched), what is left in src, and the value returned.            *)
libtwirc_shift_token(src, sep) ==
    LET sep_pos == strstr(src, sep)
        tok_len == sep_pos
    IN  IF sep_pos = -1
        THEN [dest |-> NULL, src |-> src, ret |-> 0]
        ELSE [dest |-> Ptr(Take(src, tok_len)),
              src |-> Drop(src, tok_len + Len(sep)),
              ret |-> tok_len]

---------------------------------------------------------------------------
(* The wire decoder. *)

(* strtok(str, delim) called until it returns NULL: the non-empty pieces of  *)
(* str between delimiters.                                                  *)
RECURSIVE strtok_all(_, _)
strtok_all(str, delim) ==
    LET at == strstr(str, <<delim>>)
    IN  IF str = <<>> THEN <<>>
        ELSE IF at = -1 THEN <<str>>
        ELSE IF at = 0 THEN strtok_all(Drop(str, 1), delim)
        ELSE <<Take(str, at)>> \o strtok_all(Drop(str, at + 1), delim)

(* The loop of libtwirc_unescape_tag from index i (0-based) on: it runs      *)
(* while i < val_len - 1.                                                   *)
RECURSIVE UnescapeFrom(_, _)
UnescapeFrom(val, i) ==
    LET c == val[i + 1]
        d == val[i + 2]
    IN  IF i >= Len(val) - 1 THEN <<>>
        ELSE IF c = "\\" /\ d = ":" THEN <<";">> \o UnescapeFrom(val, i + 2)
        ELSE IF c = "\\" /\ d = "s" THEN <<SP>> \o UnescapeFrom(val, i + 2)
        ELSE IF c = "\\" /\ d = "\\" THEN <<"\\">> \o UnescapeFrom(val, i + 2)
        ELSE IF c = "\\" /\ d = "r" THEN <<CR>> \o UnescapeFrom(val, i + 2)
        ELSE IF c = "\\" /\ d = "n" THEN <<LF>> \o UnescapeFrom(val, i + 2)
        ELSE <<c>> \o UnescapeFrom(val, i + 1)

libtwirc_unescape_tag(val) == UnescapeFrom(val, 0)

libtwirc_create_tag(key, val) == [key |-> key, value |-> libtwirc_unescape_tag(val)]

(* One iteration of the loop of libtwirc_parse_tags: the tag made of one     *)
(* token.                                                                   *)
ParseTag(tag) ==
    LET eq == strstr(tag, <<"=">>)
    IN  IF eq = -1 \/ eq + 1 = Len(tag)
        THEN libtwirc_create_tag(tag, <<>>)
        ELSE libtwirc_create_tag(Take(tag, eq), Drop(tag, eq + 1))

(* The growth of the tag array: add = num_tags * 0.5; num_tags += add.       *)
GrowTags(num_tags) == num_tags + (num_tags \div 2)

(* The loop of libtwirc_parse_tags over the tokens strtok returns, from      *)
(* token i (0-based) on.  The array *tags has room for num_tags pointers;    *)
(* the entries are written at 0, 1, ... in turn, and a write at an index     *)
(* that is not below num_tags is outside the allocation (overflow).          *)
RECURSIVE TagsLoop(_, _, _, _, _)
TagsLoop(toks, i, tags, num_tags, overflow) ==
    LET grown == IF i >= num_tags - 1 THEN GrowTags(num_tags) ELSE num_tags
    IN  IF i >= Len(toks)
        THEN [tags |-> tags, num_tags |-> num_tags, overflow |-> overflow]
        ELSE TagsLoop(toks, i + 1, Append(tags, ParseTag(toks[i + 1])), grown,
                      overflow \/ i >= grown)

(* libtwirc_parse_tags(msg, tags, len).  Without a space after the tag       *)
(* block, next is NULL: the pointer arithmetic on it and the returned        *)
(* next + 1 are undefined, and the caller reads through that pointer.  cap   *)
(* is the size of the array after the final realloc, where the end marker    *)
(* is written at index len.                                                  *)
libtwirc_parse_tags(msg) ==
    LET next == strstr(msg, <<SP>>)
        toks == strtok_all(SubSeq(msg, 2, next), ";")
        r    == TagsLoop(toks, 0, <<>>, TWIRC_NUM_TAGS, FALSE)
        i    == Len(r.tags)
        cap  == IF i < r.num_tags - 1 THEN i + 1 ELSE r.num_tags
    IN  IF msg = <<>> \/ msg[1] # "@"
        THEN [fault |-> FALSE, tags |-> NULL, len |-> 0, cap |-> 0, ret |-> msg]
        ELSE IF next = -1
        THEN [fault |-> TRUE, tags |-> NULL, len |-> 0, cap |-> 0, ret |-> <<>>]
        ELSE [fault |-> r.overflow \/ i >= cap,
              tags |-> Ptr(r.tags),
              len |-> i,
              cap |-> cap,
              ret |-> Drop(msg, next + 1)]

(* libtwirc_parse_prefix(msg, prefix), undefined like libtwirc_parse_tags    *)
(* when no space follows the prefix.                                         *)
libtwirc_parse_prefix(msg) ==
    LET next == strstr(msg, <<SP>>)
    IN  IF msg = <<>> \/ msg[1] # ":"
        THEN [fault |-> FALSE, prefix |-> NULL, ret |-> msg]
        ELSE IF next = -1
        THEN [fault |-> TRUE, prefix |-> NULL, ret |-> <<>>]
        ELSE [fault |-> FALSE, prefix |-> Ptr(SubSeq(msg, 2, next)),
              ret |-> Drop(msg, next + 1)]

(* strndup(str, n) for a size_t n computed as k: a negative k wraps to a     *)
(* huge n and the whole string is copied.                                    *)
strndup(str, k) == IF k < 0 \/ k > Len(str) THEN str ELSE Take(str, k)

(* libtwirc_parse_command(msg, cmd): the command and the pointer returned.   *)
libtwirc_parse_command(msg) ==
    LET next == strstr(msg, <<SP>>)
    IN  IF next = -1
        THEN [cmd |-> strndup(msg, Len(msg) - 2), ret |-> NULL]
        ELSE [cmd |-> strndup(msg, next), ret |-> Ptr(Drop(msg, next + 1))]

(* The loop of libtwirc_parse_params from index i (0-based) on. *)
(* A parameter array that is never enlarged. *)
GrowParams_stays(num_params) == num_params

(* The growth of the parameter array: add = num_params; num_params += add.  *)
GrowParams(num_params) == num_params + num_params

(* The loop of libtwirc_parse_params from character i (0-based) on, v the   *)
(* values of its variables.  The array *params has room for num_params      *)
(* pointers; a write at an index that is not below num_params is outside    *)
(* the allocation (overflow).                                               *)
RECURSIVE ParamsLoop(_, _, _)
ParamsLoop(p_str, i, v) ==
    LET p_len == Len(p_str)
        c == p_str[i + 1]
        num_tokens == Len(v.toks)
        grown == IF num_tokens >= v.num_params - 1 THEN GrowParams(v.num_params) ELSE v.num_params
        over == v.overflow \/ num_tokens >= grown
    IN  IF i >= p_len THEN v
        ELSE IF c = ":" /\ ~v.trailing
        THEN ParamsLoop(p_str, i + 1, [v EXCEPT !.trailing = TRUE, !.from = i + 1, !.num_params = grown])
        ELSE IF c = SP /\ ~v.trailing
        THEN ParamsLoop(p_str, i + 1,
                        [v EXCEPT !.toks = Append(v.toks, SubSeq(p_str, v.from + 1, i)),
                                  !.from = i + 1, !.num_params = grown, !.overflow = over])
        ELSE IF i = p_len - 1
        THEN ParamsLoop(p_str, i + 1,
                        [v EXCEPT !.toks = Append(v.toks, SubSeq(p_str, v.from + 1, i + 1)),
                                  !.num_params = grown, !.overflow = over])
        ELSE ParamsLoop(p_str, i + 1, [v EXCEPT !.num_params = grown])

(* libtwirc_parse_params(msg, params, len, t_idx); msg is NULL or a string. *)
(* cap is the size of the array after the final realloc, where the end      *)
(* marker is written at index len.                                          *)
libtwirc_parse_params(msg) ==
    LET r == ParamsLoop(msg[1], 0, [toks |-> <<>>, trailing |-> FALSE, from |-> 0,
                                    num_params |-> TWIRC_NUM_PARAMS, overflow |-> FALSE])
        num_tokens == Len(r.toks)
        cap == IF num_tokens < r.num_params - 1 THEN num_tokens + 1 ELSE r.num_params
    IN  IF msg = NULL
        THEN [fault |-> FALSE, params |-> NULL, len |-> 0, cap |-> 0, t_idx |-> -1]
        ELSE [fault |-> r.overflow \/ num_tokens >= cap,
              params |-> Ptr(r.toks), len |-> num_tokens, cap |-> cap,
              t_idx |-> IF r.trailing THEN num_tokens - 1 ELSE -1]

(* A libtwirc_prefix_to_nick that takes a prefix without '!' for a          *)
(* nickname.                                                                *)
libtwirc_prefix_to_nick_whole(prefix) ==
    LET sep == strstr(prefix, <<"!">>)
    IN  IF sep = -1 THEN Ptr(prefix) ELSE Ptr(Take(prefix, sep))

(* libtwirc_prefix_to_nick(prefix): NULL without a '!'. *)
libtwirc_prefix_to_nick(prefix) ==
    LET sep == strstr(prefix, <<"!">>)
    IN  IF sep = -1 THEN NULL ELSE Ptr(Take(prefix, sep))

(* The event libtwirc_process_msg builds from msg before it dispatches it;   *)
(* fault when one of the parsers ran into undefined behaviour.               *)
ParseMsg(msg) ==
    LET t == libtwirc_parse_tags(msg)
        p == libtwirc_parse_prefix(t.ret)
        c == libtwirc_parse_command(p.ret)
        a == libtwirc_parse_params(c.ret)
    IN  IF t.fault \/ p.fault \/ a.fault
        THEN [fault |-> TRUE]
        ELSE [fault |-> FALSE, tags |-> t.tags, num_tags |-> t.len,
              prefix |-> p.prefix,
              nick |-> IF p.prefix = NULL THEN NULL ELSE libtwirc_prefix_to_nick(p.prefix[1]),
              channel |-> NULL, command |-> c.cmd,
              params |-> a.params, num_params |-> a.len, trailing |-> a.t_idx]

---------------------------------------------------------------------------
(* Sending, the callback table and twirc_disconnect. *)

(* One entry of the log: k is "connect", "send", "msg" or "cb"; m the bytes  *)
(* sent, the message or the event's command; slot the callback slot; st the  *)
(* status when the entry was made; ret what the socket answered to a send    *)
(* whose result the code looks at (0 otherwise).                             *)
Entry(k, m, slot, st, ret) == [k |-> k, m |-> m, slot |-> slot, st |-> st, ret |-> ret]

Logged(s, k, m, slot, ret) == [s EXCEPT !.log = Append(@, Entry(k, m, slot, s.status, ret))]

Min2(a, b) == IF a < b THEN a ELSE b

(* twirc_send(state, msg): msg cut to TWIRC_BUFFER_SIZE - 3 bytes, CR LF      *)
(* appended, handed to the socket, which answers ret.                        *)
twirc_send(s, msg, ret) ==
    Logged(s, "send", Take(msg, Min2(Len(msg), TWIRC_BUFFER_SIZE - 3)) \o CRLF, "", ret)

(* The credentials twirc_connect copies into state->login. *)
Login == [pass |-> <<"o">>, nick |-> <<"n">>]

S_PASS == <<"P", "A", "S", "S", SP>>
S_NICK == <<"N", "I", "C", "K", SP>>

twirc_cmd_pass(s, pass, ret) == twirc_send(s, S_PASS \o pass, ret)

twirc_cmd_nick(s, nick) == twirc_send(s, S_NICK \o nick, 0)

CapReq == <<"C", "A", "P", SP, "R", "E", "Q", SP, ":">>

S_REQ_TAGS == CapReq \o <<"t", "a", "g", "s">>
S_REQ_MEMBERSHIP == CapReq \o <<"m", "e", "m", "b", "e", "r", "s", "h", "i", "p">>
S_REQ_COMMANDS == CapReq \o <<"c", "o", "m", "m", "a", "n", "d", "s">>

twirc_cmd_req_tags(s) == twirc_send(s, S_REQ_TAGS, 0)

twirc_cmd_req_membership(s) == twirc_send(s, S_REQ_MEMBERSHIP, 0)

twirc_cmd_req_commands(s) == twirc_send(s, S_REQ_COMMANDS, 0)

(* twirc_cmd_pong(state, param); param is NULL or a string. *)
twirc_cmd_pong(s, param) ==
    twirc_send(s, <<"P", "O", "N", "G", SP>>
                  \o (IF param # NULL /\ param[1] # <<>> /\ param[1][1] = ":" THEN <<>> ELSE <<":">>)
                  \o (IF param # NULL THEN param[1] ELSE <<>>), 0)

S_QUIT == <<"Q", "U", "I", "T">>

(* twirc_cmd_quit(state); the socket answers quit_ret. *)
twirc_cmd_quit(s, quit_ret) == twirc_send(s, S_QUIT, quit_ret)

(* twirc_disconnect(state) if it gave up when QUIT cannot be sent. *)
twirc_disconnect_gives_up(s, quit_ret, close_ret) ==
    IF quit_ret = -1 THEN [twirc_cmd_quit(s, quit_ret) EXCEPT !.ret = -1]
    ELSE [Logged(twirc_cmd_quit(s, quit_ret), "close", <<>>, "", close_ret)
            EXCEPT !.net = "closed", !.status = TWIRC_STATUS_DISCONNECTED, !.ret = close_ret]

(* twirc_disconnect(state): QUIT, whatever the socket answers to it          *)
(* (quit_ret), then stcpnb_close, whose result close_ret it returns, then    *)
(* status Disconnected.                                                      *)
twirc_disconnect(s, quit_ret, close_ret) ==
    [Logged(twirc_cmd_quit(s, quit_ret), "close", <<>>, "", close_ret)
        EXCEPT !.net = "closed", !.status = TWIRC_STATUS_DISCONNECTED, !.ret = close_ret]

(* What the socket answers when the library sends on it or closes it         *)
(* without a notification having said more: a send goes through on an open   *)
(* connection, and a descriptor can be closed once.                          *)
SendAnswer(s) == IF s.net = "open" THEN 0 ELSE -1
CloseAnswer(s) == IF s.net = "closed" THEN -1 ELSE 0

(* The slots of struct twirc_callbacks. *)
Slots == {"connect", "welcome", "ping", "join", "part", "channel", "privmsg", "whisper", "notice", "clearchat", "unknown"}

(* What a slot can hold: the library's dummy, nothing (a slot of a caller's  *)
(* table that was never assigned), a caller's handler that returns, and a    *)
(* caller's handler that calls twirc_disconnect, and a caller's handler that *)
(* clears state->running.                                                    *)
Handlers == {"libtwirc_callback_null", "NULL", "user_return", "user_disconnect", "user_stop"}

(* twirc_init_callbacks(cbs): every slot holds the dummy callback. *)
twirc_init_callbacks == [slot \in Slots |-> "libtwirc_callback_null"]

(* state->callbacks.<slot>(state, evt): the call of a handler.  A call       *)
(* through a null function pointer is undefined.                             *)
Invoke(s, slot, cmd) ==
    LET h == s.callbacks[slot]
        s1 == Logged(s, "cb", cmd, slot, 0)
    IN  IF h = "NULL" THEN [s1 EXCEPT !.fault = TRUE]
        ELSE IF h = "user_disconnect"
             THEN [twirc_disconnect(s1, SendAnswer(s1), CloseAnswer(s1)) EXCEPT !.ret = s1.ret]
        ELSE IF h = "user_stop" THEN [s1 EXCEPT !.running = 0]
        ELSE s1

---------------------------------------------------------------------------
(* The dispatcher. *)

(* libtwirc_on_welcome assigning the flag instead of or-ing it in. *)
libtwirc_on_welcome_assigns(s) == [s EXCEPT !.status = TWIRC_STATUS_AUTHENTICATED]

(* libtwirc_on_welcome(state, evt). *)
libtwirc_on_welcome(s) == [s EXCEPT !.status = SetFlag(@, TWIRC_STATUS_AUTHENTICATED)]

libtwirc_on_globaluserstate(s) == [s EXCEPT !.status = SetFlag(@, TWIRC_STATUS_AUTHENTICATED)]

(* params[0] of an event with a parameter list: NULL when the list is empty  *)
(* (the end marker).                                                         *)
Param0(evt) == IF evt.params[1] = <<>> THEN NULL ELSE Ptr(evt.params[1][1])

(* libtwirc_on_ping(state, evt): reading params[0] of a NULL list is         *)
(* undefined.                                                                *)
libtwirc_on_ping(s, evt) ==
    IF evt.params = NULL THEN [s EXCEPT !.fault = TRUE]
    ELSE twirc_cmd_pong(s, Param0(evt))

(* The test of libtwirc_dispatch_evt for a CTCP payload in params[1]. *)
IsCtcp(p) == p # <<>> /\ p[1] = SOH /\ p[Len(p)] = SOH

S_001 == <<"0", "0", "1">>
S_JOIN == <<"J", "O", "I", "N">>
S_PING == <<"P", "I", "N", "G">>
S_PRIVMSG == <<"P", "R", "I", "V", "M", "S", "G">>
S_CLEARCHAT == <<"C", "L", "E", "A", "R", "C", "H", "A", "T">>
S_WHISPER == <<"W", "H", "I", "S", "P", "E", "R">>
S_GLOBALUSERSTATE == <<"G", "L", "O", "B", "A", "L", "U", "S", "E", "R", "S", "T", "A", "T", "E">>

(* The "001" branch of libtwirc_dispatch_evt. *)
DispatchWelcome(s, evt) == Invoke(libtwirc_on_welcome(s), "welcome", evt.command)

(* The "PING" branch of libtwirc_dispatch_evt. *)
DispatchPing(s, evt) ==
    LET s1 == libtwirc_on_ping(s, evt)
    IN  IF s1.fault THEN s1 ELSE Invoke(s1, "ping", evt.command)

(* libtwirc_dispatch_evt(state, evt). *)
libtwirc_dispatch_evt(s, evt) ==
    IF evt.command = S_001 THEN DispatchWelcome(s, evt)
    ELSE IF evt.command = S_JOIN
    THEN IF evt.params = NULL THEN [s EXCEPT !.fault = TRUE]
         ELSE Invoke(s, "join", evt.command)
    ELSE IF evt.command = S_PING THEN DispatchPing(s, evt)
    ELSE IF evt.command = S_PRIVMSG /\ evt.num_params >= 2
    THEN IF IsCtcp(evt.params[1][2]) THEN s
         ELSE Invoke(s, "privmsg", evt.command)
    ELSE IF evt.command = S_CLEARCHAT THEN Invoke(s, "clearchat", evt.command)
    ELSE IF evt.command = S_WHISPER THEN Invoke(s, "whisper", evt.command)
    ELSE s

(* libtwirc_process_msg(state, msg). *)
libtwirc_process_msg(s, msg) ==
    LET evt == ParseMsg(msg)
        s1 == Logged(s, "msg", msg, "", 0)
    IN  IF evt.fault THEN [s1 EXCEPT !.fault = TRUE]
        ELSE libtwirc_dispatch_evt(s1, evt)

(* The extraction loop working on the newest complete message first. *)
RECURSIVE ExtractLoop_newest_first(_)
ExtractLoop_newest_first(s) ==
    LET r == libtwirc_shift_token(s.buffer, CRLF)
        s1 == [s EXCEPT !.buffer = r.src]
    IN  IF s.fault THEN s
        ELSE IF r.ret >= TWIRC_MESSAGE_SIZE THEN [s1 EXCEPT !.fault = TRUE]
        ELSE IF r.ret > 0 THEN libtwirc_process_msg(ExtractLoop_newest_first(s1), r.dest[1])
        ELSE s1

(* The extraction loop if it looked at state->running and stopped once a    *)
(* callback has cleared it.                                                  *)
RECURSIVE ExtractLoop_until_stopped(_)
ExtractLoop_until_stopped(s) ==
    LET r == libtwirc_shift_token(s.buffer, CRLF)
        s1 == [s EXCEPT !.buffer = r.src]
        s2 == libtwirc_process_msg(s1, r.dest[1])
    IN  IF s.fault THEN s
        ELSE IF r.ret >= TWIRC_MESSAGE_SIZE THEN [s1 EXCEPT !.fault = TRUE]
        ELSE IF r.ret > 0 THEN (IF s2.running = 0 /\ s.running # 0 THEN s2 ELSE ExtractLoop_until_stopped(s2))
        ELSE s1

(* The extraction loop of libtwirc_process_data: it runs while               *)
(* libtwirc_shift_token returns more than 0.  A token of TWIRC_MESSAGE_SIZE   *)
(* bytes or more overruns msg.                                               *)
RECURSIVE ExtractLoop(_)
ExtractLoop(s) ==
    LET r == libtwirc_shift_token(s.buffer, CRLF)
        s1 == [s EXCEPT !.buffer = r.src]
    IN  IF s.fault THEN s
        ELSE IF r.ret >= TWIRC_MESSAGE_SIZE THEN [s1 EXCEPT !.fault = TRUE]
        ELSE IF r.ret > 0 THEN ExtractLoop(libtwirc_process_msg(s1, r.dest[1]))
        ELSE s1

(* libtwirc_process_data(state, buf, len). *)
libtwirc_process_data(s, buf, len) == ExtractLoop(AppendChunks(s, buf, len, 0))

---------------------------------------------------------------------------
(* The connection state machine. *)

(* twirc_capreq(s). *)
twirc_capreq(s) == twirc_cmd_req_commands(twirc_cmd_req_membership(twirc_cmd_req_tags(s)))

(* twirc_auth(state); pass_ret is what twirc_cmd_pass returned. *)
twirc_auth(s, pass_ret) ==
    LET s1 == twirc_cmd_pass(s, Login.pass, pass_ret)
    IN  IF pass_ret = -1 THEN s1 ELSE twirc_cmd_nick(s1, Login.nick)

(* libtwirc_on_connect logging in before it requests the capabilities. *)
libtwirc_on_connect_auth_first(s, pass_ret) ==
    IF HasFlag(s.status, TWIRC_STATUS_AUTHENTICATING) THEN s
    ELSE IF HasFlag(s.status, TWIRC_STATUS_AUTHENTICATED) THEN s
    ELSE [twirc_capreq(twirc_auth(s, pass_ret)) EXCEPT !.status = SetFlag(@, TWIRC_STATUS_AUTHENTICATING)]

(* libtwirc_on_connect(s). *)
libtwirc_on_connect(s, pass_ret) ==
    IF HasFlag(s.status, TWIRC_STATUS_AUTHENTICATING) THEN s
    ELSE IF HasFlag(s.status, TWIRC_STATUS_AUTHENTICATED) THEN s
    ELSE [twirc_auth(twirc_capreq(s), pass_ret) EXCEPT !.status = SetFlag(@, TWIRC_STATUS_AUTHENTICATING)]

(* The assignment as an or: the other flags, Connecting among them, stay. *)
StatusOnWritable_keeps_flags(st) == SetFlag(st, TWIRC_STATUS_CONNECTED)

(* The status libtwirc_handle_event sets when the socket becomes writable    *)
(* while Connecting.                                                         *)
StatusOnWritable(st) == TWIRC_STATUS_CONNECTED

(* The EPOLLOUT branch of libtwirc_handle_event. *)
HandleWritable(s, pass_ret) ==
    LET s1 == libtwirc_on_connect([s EXCEPT !.status = StatusOnWritable(@)], pass_ret)
    IN  IF ~HasFlag(s.status, TWIRC_STATUS_CONNECTING) THEN s
        ELSE IF s1.callbacks["connect"] # "NULL" THEN Invoke(s1, "connect", <<>>)
        ELSE s1

(* What libtwirc_handle_event would do if its three blocks for EPOLLRDHUP,   *)
(* EPOLLHUP and EPOLLERR left state->running alone.                          *)
HandleHangup_keeps_running(s) == [s EXCEPT !.status = TWIRC_STATUS_DISCONNECTED, !.ret = -1]

(* The EPOLLRDHUP, EPOLLHUP and EPOLLERR branches of libtwirc_handle_event. *)
HandleHangup(s) == [s EXCEPT !.status = TWIRC_STATUS_DISCONNECTED, !.running = 0, !.ret = -1]

(* libtwirc_handle_event(s, epev) after its EPOLLIN loop; twirc_tick returns *)
(* what it returns.                                                          *)
HandleTail(s, events, pass_ret) ==
    LET s1 == IF "OUT" \in events THEN HandleWritable(s, pass_ret) ELSE s
    IN  IF s1.fault THEN s1
        ELSE IF events \cap {"RDHUP", "HUP", "ERR"} # {} THEN HandleHangup(s1)
        ELSE [s1 EXCEPT !.ret = 0]

(* libtwirc_handle_event(s, epev) from the end of its EPOLLIN loop on: the   *)
(* loop ends when twirc_recv returns 0 or -1, and the value is not looked at *)
(* again.                                                                    *)
RecvLoopEnds(s, events, bytes_received, pass_ret) == HandleTail(s, events, pass_ret)

---------------------------------------------------------------------------
(* Bounds of the model. *)

(* Lines the server sends in one run. *)
MaxLines == 2
(* Calls of twirc_connect in one run of SpecReconnect. *)
MaxConnects == 2
(* Bytes of the stream fed to libtwirc_process_data in one run of SpecData. *)
MaxStream == 6

---------------------------------------------------------------------------
(* The caller, the socket and the server. *)

(* The twirc_state as one record, with the value ret the call at work on it  *)
(* returns, and the variables after a call that left it as r.                *)
S == [status |-> status, running |-> running, buffer |-> buffer, callbacks |-> callbacks, net |-> net, log |-> log, fault |-> fault, ret |-> 0]

Commit(r) ==
    /\ status' = r.status
    /\ running' = r.running
    /\ buffer' = r.buffer
    /\ callbacks' = r.callbacks
    /\ net' = r.net
    /\ log' = r.log
    /\ fault' = r.fault

(* Lines of the server: a welcome, a ping and a GLOBALUSERSTATE.  A run      *)
(* fixes the lines its server sends (budget.vocab); Lines are those of Spec. *)
L_WELCOME == S_001 \o <<SP, "n">>
L_PING == S_PING \o <<SP, ":", "t">>
L_GLOBALUSERSTATE == S_GLOBALUSERSTATE \o <<SP, "x">>
Lines == {L_WELCOME, L_PING}

(* A struct twirc_callbacks of the caller that was zeroed and not handed to  *)
(* twirc_init_callbacks.                                                     *)
ZeroedCallbacks == [slot \in Slots |-> "NULL"]

(* The tables a caller hands to twirc_set_callbacks: a table with one        *)
(* handler of its own, of those the caller of the run has (budget.handlers); *)
(* the other slots are as twirc_init_callbacks has left them, or were never  *)
(* assigned (budget.zeroed).                                                 *)
UserTables(b) ==
    {[(IF b.zeroed THEN ZeroedCallbacks ELSE twirc_init_callbacks) EXCEPT ![slot] = h] :
        slot \in {"connect", "welcome", "ping"}, h \in b.handlers}

(* twirc_init(): the state after construction. *)
Init ==
    /\ status = TWIRC_STATUS_DISCONNECTED
    /\ running = 0
    /\ buffer = <<>>
    /\ callbacks = twirc_init_callbacks
    /\ net = "closed"
    /\ wire = <<>>
    /\ pc = "idle"
    /\ ev = {}
    /\ log = <<>>
    /\ rx = <<>>
    /\ fault = FALSE
    /\ budget = [lines |-> MaxLines, vocab |-> Lines, connects |-> 1, tables |-> 1, handlers |-> {"user_disconnect"}, loops |-> 1, direct |-> TRUE, disconnects |-> 1, zeroed |-> FALSE]
    /\ spans = <<>>
    /\ looping = FALSE

(* twirc_connect if it set Connecting before it knew what stcpnb_connect     *)
(* returns.                                                                  *)
twirc_connect_sets_first(s, setup, con) ==
    IF setup # 0 THEN [s EXCEPT !.net = "closed", !.ret = setup]
    ELSE IF con = 0
    THEN [s EXCEPT !.net = "pending", !.status = TWIRC_STATUS_CONNECTING, !.ret = con,
                   !.log = <<Entry("connect", <<>>, "", TWIRC_STATUS_CONNECTING, 0)>>]
    ELSE [s EXCEPT !.net = "closed", !.status = TWIRC_STATUS_CONNECTING, !.ret = con]

(* twirc_connect(state, host, port, pass, nick): setup is -3, -4 or -5 when  *)
(* stcpnb_create, epoll_create or epoll_ctl fails and 0 otherwise, con is    *)
(* the value of stcpnb_connect.  A new socket replaces the one in            *)
(* state->socket_fd; after a failure no notification comes for it.           *)
twirc_connect(s, setup, con) ==
    IF setup # 0 THEN [s EXCEPT !.net = "closed", !.ret = setup]
    ELSE IF con = 0
    THEN [s EXCEPT !.net = "pending", !.status = TWIRC_STATUS_CONNECTING, !.ret = con,
                   !.log = <<Entry("connect", <<>>, "", TWIRC_STATUS_CONNECTING, 0)>>]
    ELSE [s EXCEPT !.net = "closed", !.ret = con]

Connect ==
    /\ pc = "idle" /\ ~fault
    /\ ~looping
    /\ budget.connects > 0
    /\ \E setup \in {0, -3, -4, -5}, con \in {0, -1, -2} :
        /\ Commit(twirc_connect(S, setup, con))
        /\ rx' = IF twirc_connect(S, setup, con).ret = 0 THEN buffer ELSE rx
    /\ wire' = <<>>
    /\ budget' = [budget EXCEPT !.connects = @ - 1]
    /\ UNCHANGED <<pc, ev, spans, looping>>

(* The caller calls twirc_disconnect(state) on a connection it has asked    *)
(* for.                                                                      *)
Disconnect ==
    /\ pc = "idle" /\ ~fault
    /\ ~looping
    /\ budget.disconnects > 0
    /\ status # TWIRC_STATUS_DISCONNECTED
    /\ Commit(twirc_disconnect(S, SendAnswer(S), CloseAnswer(S)))
    /\ wire' = <<>>
    /\ budget' = [budget EXCEPT !.disconnects = @ - 1]
    /\ UNCHANGED <<pc, ev, rx, spans, looping>>

(* twirc_set_callbacks(s, cbs). *)
twirc_set_callbacks(s, cbs) == [s EXCEPT !.callbacks = cbs]

SetCallbacks ==
    /\ pc = "idle" /\ ~fault
    /\ ~looping
    /\ budget.tables > 0 /\ log = <<>>
    /\ \E cbs \in UserTables(budget) : Commit(twirc_set_callbacks(S, cbs))
    /\ budget' = [budget EXCEPT !.tables = @ - 1]
    /\ UNCHANGED <<wire, pc, ev, rx, spans, looping>>

(* twirc_loop(state, timeout): the caller enters the loop, which sets        *)
(* state->running and calls twirc_tick while it is set; until the loop       *)
(* returns the caller calls nothing else.                                    *)
Loop ==
    /\ pc = "idle" /\ ~fault
    /\ ~looping
    /\ budget.loops > 0
    /\ running' = 1
    /\ looping' = TRUE
    /\ budget' = [budget EXCEPT !.loops = @ - 1]
    /\ UNCHANGED <<status, buffer, callbacks, net, wire, pc, ev, log, rx, fault, spans>>

(* twirc_loop finds state->running cleared and returns 0. *)
LoopReturn ==
    /\ pc = "idle" /\ ~fault
    /\ looping /\ running = 0
    /\ looping' = FALSE
    /\ UNCHANGED <<status, running, buffer, callbacks, net, wire, pc, ev, log, rx, fault, budget, spans>>

(* A call of twirc_tick can begin: by a caller that calls it itself          *)
(* (budget.direct), or by twirc_loop while state->running is set.            *)
TickBegins ==
    /\ pc = "idle" /\ ~fault
    /\ IF looping THEN running # 0 ELSE budget.direct

(* The masks epoll_wait can report for the socket. *)
EpollEvents == {"IN", "OUT", "RDHUP", "HUP", "ERR"}

MaskPossible(m) ==
    /\ m # {}
    /\ Cardinality(m \cap {"RDHUP", "HUP", "ERR"}) <= 1
    /\ net # "closed"
    /\ "IN" \in m => (net = "open" /\ wire # <<>>) \/ net = "hup"
    /\ "OUT" \in m => net \in {"open", "hup"}
    /\ "RDHUP" \in m => net = "hup"
    /\ "HUP" \in m => net = "hup"

(* twirc_tick(s, timeout) when epoll_wait fails. *)
twirc_tick_wait_failed(s) == [s EXCEPT !.running = 0, !.ret = -1]

TickError ==
    /\ TickBegins
    /\ Commit(twirc_tick_wait_failed(S))
    /\ UNCHANGED <<wire, pc, ev, rx, budget, spans, looping>>

(* twirc_tick(s, timeout) when epoll_wait reports no event. *)
TickTimeout ==
    /\ TickBegins
    /\ UNCHANGED <<status, running, buffer, callbacks, net, wire, pc, ev, log, rx, fault, budget, spans, looping>>

(* twirc_tick(s, timeout) when epoll_wait reports the mask m: with EPOLLIN   *)
(* libtwirc_handle_event enters its recv loop, without it it runs to its     *)
(* end.                                                                      *)
TickEvent ==
    /\ TickBegins
    /\ \E m \in SUBSET EpollEvents :
        /\ MaskPossible(m)
        /\ IF "IN" \in m
           THEN /\ pc' = "drain" /\ ev' = m
                /\ UNCHANGED <<status, running, buffer, callbacks, net, wire, log, fault>>
           ELSE /\ \E pass_ret \in {0, -1} : Commit(HandleTail(S, m, pass_ret))
                /\ wire' = IF net' = "closed" THEN <<>> ELSE wire
                /\ UNCHANGED <<pc, ev>>
    /\ UNCHANGED <<rx, budget, spans, looping>>

(* What stcpnb_receive leaves in errno when it returns -1 (EWOULDBLOCK is    *)
(* EAGAIN).                                                                  *)
Errnos == {"EAGAIN", "ECONNRESET"}

(* The results of stcpnb_receive that end the recv loop. *)
RecvOutcomes == {[res_len |-> 0, errno |-> "none"]} \cup {[res_len |-> -1, errno |-> e] : e \in Errnos}

(* twirc_recv(state, buf, len) when stcpnb_receive returns res_len: the      *)
(* value returned and the lowest and the highest index of buf written, by    *)
(* memset(buf, 0, len), by the res_len bytes received and by                 *)
(* buf[res_len] = 0.                                                         *)
twirc_recv(len, res_len, errno) ==
    [ret |-> IF res_len = -1
             THEN (IF errno \in {"EAGAIN", "EWOULDBLOCK"} THEN 0 ELSE -1)
             ELSE res_len,
     lo  |-> IF res_len < 0 THEN res_len ELSE 0,
     hi  |-> IF res_len > len - 1 THEN res_len ELSE len - 1]

(* A recv loop that, told of a hang-up or an error with the same            *)
(* notification, reads the bytes and drops them.                             *)
RecvData_drops_on_hangup ==
    /\ pc = "drain" /\ ~fault
    /\ net \in {"open", "hup"}
    /\ \E n \in 1..Min2(Len(wire), TWIRC_BUFFER_SIZE - 1) :
        /\ IF ev \cap {"RDHUP", "HUP", "ERR"} # {}
           THEN Commit(S)
           ELSE Commit(libtwirc_process_data(S, Take(wire, n), n))
        /\ rx' = rx \o Take(wire, n)
        /\ wire' = IF net' = "closed" THEN <<>> ELSE Drop(wire, n)
    /\ UNCHANGED <<pc, ev, budget, spans, looping>>

(* One round of the recv loop of libtwirc_handle_event: twirc_recv returns   *)
(* n > 0 bytes, at most TWIRC_BUFFER_SIZE - 1, and libtwirc_process_data     *)
(* works on them.                                                            *)
RecvData ==
    /\ pc = "drain" /\ ~fault
    /\ net \in {"open", "hup"}
    /\ \E n \in 1..Min2(Len(wire), TWIRC_BUFFER_SIZE - 1) :
        /\ twirc_recv(TWIRC_BUFFER_SIZE, n, "EAGAIN").ret = n
        /\ Commit(libtwirc_process_data(S, Take(wire, n), n))
        /\ rx' = rx \o Take(wire, n)
        /\ wire' = IF net' = "closed" THEN <<>> ELSE Drop(wire, n)
    /\ UNCHANGED <<pc, ev, budget, spans, looping>>

(* The end of the recv loop: stcpnb_receive returns 0 (the peer has closed)  *)
(* or -1 (nothing to read now, or an error), twirc_recv returns 0 or -1, and *)
(* libtwirc_handle_event runs to its end.  A write of twirc_recv below buf   *)
(* is undefined: it may do no harm or damage the run.                        *)
RecvEnd ==
    /\ pc = "drain" /\ ~fault
    /\ \E o \in RecvOutcomes, pass_ret \in {0, -1}, harm \in BOOLEAN :
        LET r == twirc_recv(TWIRC_BUFFER_SIZE, o.res_len, o.errno)
            e == RecvLoopEnds(S, ev, r.ret, pass_ret)
        IN  /\ r.ret = 0 => wire = <<>>
            /\ harm => r.lo < 0
            /\ Commit([e EXCEPT !.fault = @ \/ harm])
    /\ wire' = IF net' = "closed" THEN <<>> ELSE wire
    /\ pc' = "idle" /\ ev' = {}
    /\ UNCHANGED <<rx, budget, spans, looping>>

(* The connection attempt succeeds. *)
Establish ==
    /\ pc = "idle" /\ ~fault
    /\ net = "pending"
    /\ net' = "open"
    /\ UNCHANGED <<status, running, buffer, callbacks, wire, pc, ev, log, rx, fault, budget, spans, looping>>

(* The server sends a line. *)
ServerSend ==
    /\ pc = "idle" /\ ~fault
    /\ net = "open"
    /\ budget.lines > 0
    /\ \E line \in budget.vocab : wire' = wire \o line \o CRLF
    /\ budget' = [budget EXCEPT !.lines = @ - 1]
    /\ UNCHANGED <<status, running, buffer, callbacks, net, pc, ev, log, rx, fault, spans, looping>>

(* The server closes the connection. *)
PeerClose ==
    /\ pc = "idle" /\ ~fault
    /\ net = "open"
    /\ net' = "hup"
    /\ UNCHANGED <<status, running, buffer, callbacks, wire, pc, ev, log, rx, fault, budget, spans, looping>>

Next ==
    \/ Connect
    \/ Disconnect
    \/ SetCallbacks
    \/ Loop
    \/ LoopReturn
    \/ TickError
    \/ TickTimeout
    \/ TickEvent
    \/ RecvData
    \/ RecvEnd
    \/ Establish
    \/ ServerSend
    \/ PeerClose

Spec == Init /\ [][Next]_vars

(* The same program with one line from the server and a caller that connects *)
(* again.                                                                    *)
InitReconnect ==
    /\ status = TWIRC_STATUS_DISCONNECTED
    /\ running = 0
    /\ buffer = <<>>
    /\ callbacks = twirc_init_callbacks
    /\ net = "closed"
    /\ wire = <<>>
    /\ pc = "idle"
    /\ ev = {}
    /\ log = <<>>
    /\ rx = <<>>
    /\ fault = FALSE
    /\ budget = [lines |-> 1, vocab |-> Lines, connects |-> MaxConnects, tables |-> 1, handlers |-> {"user_disconnect"}, loops |-> 1, direct |-> TRUE, disconnects |-> 1, zeroed |-> FALSE]
    /\ spans = <<>>
    /\ looping = FALSE

SpecReconnect == InitReconnect /\ [][Next]_vars

(* The same program with a server that confirms the login with               *)
(* GLOBALUSERSTATE.                                                          *)
InitGlobalUserState ==
    /\ status = TWIRC_STATUS_DISCONNECTED
    /\ running = 0
    /\ buffer = <<>>
    /\ callbacks = twirc_init_callbacks
    /\ net = "closed"
    /\ wire = <<>>
    /\ pc = "idle"
    /\ ev = {}
    /\ log = <<>>
    /\ rx = <<>>
    /\ fault = FALSE
    /\ budget = [lines |-> 1, vocab |-> {L_GLOBALUSERSTATE}, connects |-> 1, tables |-> 1, handlers |-> {"user_disconnect"}, loops |-> 1, direct |-> TRUE, disconnects |-> 1, zeroed |-> FALSE]
    /\ spans = <<>>
    /\ looping = FALSE

SpecGlobalUserState == InitGlobalUserState /\ [][Next]_vars

---------------------------------------------------------------------------
(* The caller's handlers in twirc_loop: the server sends PING lines, and the *)
(* caller's table holds a handler that calls twirc_disconnect or one that    *)
(* clears state->running; the caller calls twirc_tick through twirc_loop     *)
(* only.  Inside twirc_loop the next step of the library    *)
(* is always taken: the loop calls twirc_tick again and again, a tick that   *)
(* was told of an event handles it, the recv loop comes to its end, and the  *)
(* loop returns once it finds state->running cleared.  That epoll_wait       *)
(* fails is never certain.                                                   *)
InitLoop ==
    /\ status = TWIRC_STATUS_DISCONNECTED
    /\ running = 0
    /\ buffer = <<>>
    /\ callbacks = twirc_init_callbacks
    /\ net = "closed"
    /\ wire = <<>>
    /\ pc = "idle"
    /\ ev = {}
    /\ log = <<>>
    /\ rx = <<>>
    /\ fault = FALSE
    /\ budget = [lines |-> MaxLines, vocab |-> {L_PING}, connects |-> 1, tables |-> 1, handlers |-> {"user_disconnect", "user_stop"}, loops |-> 1, direct |-> FALSE, disconnects |-> 1, zeroed |-> FALSE]
    /\ spans = <<>>
    /\ looping = FALSE

SpecLoop ==
    /\ InitLoop /\ [][Next]_vars
    /\ WF_vars(looping /\ TickEvent)
    /\ WF_vars(RecvEnd)
    /\ WF_vars(LoopReturn)

(* Lines the decoder ends without parameters: a PING and a JOIN with nothing *)
(* behind the command.  libtwirc_parse_command takes the last two bytes off  *)
(* a line without a space.                                                   *)
L_PING_BARE == S_PING
L_JOIN_BARE == S_JOIN \o <<"a", "b">>
L_PING_NOSPACE == S_PING \o <<"a", "b">>

(* The server sends one line of these or a PING with an argument. *)
InitCommands ==
    /\ status = TWIRC_STATUS_DISCONNECTED
    /\ running = 0
    /\ buffer = <<>>
    /\ callbacks = twirc_init_callbacks
    /\ net = "closed"
    /\ wire = <<>>
    /\ pc = "idle"
    /\ ev = {}
    /\ log = <<>>
    /\ rx = <<>>
    /\ fault = FALSE
    /\ budget = [lines |-> 1, vocab |-> {L_PING, L_PING_BARE, L_JOIN_BARE, L_PING_NOSPACE}, connects |-> 1, tables |-> 1, handlers |-> {"user_disconnect"}, loops |-> 1, direct |-> TRUE, disconnects |-> 1, zeroed |-> FALSE]
    /\ spans = <<>>
    /\ looping = FALSE

SpecCommands == InitCommands /\ [][Next]_vars

(* A caller that hands twirc_set_callbacks a table of which it has assigned  *)
(* one slot only; the server sends a PING or a welcome.                      *)
InitCallbacks ==
    /\ status = TWIRC_STATUS_DISCONNECTED
    /\ running = 0
    /\ buffer = <<>>
    /\ callbacks = twirc_init_callbacks
    /\ net = "closed"
    /\ wire = <<>>
    /\ pc = "idle"
    /\ ev = {}
    /\ log = <<>>
    /\ rx = <<>>
    /\ fault = FALSE
    /\ budget = [lines |-> 1, vocab |-> Lines, connects |-> 1, tables |-> 1, handlers |-> {"user_return"}, loops |-> 1, direct |-> TRUE, disconnects |-> 1, zeroed |-> TRUE]
    /\ spans = <<>>
    /\ looping = FALSE

SpecCallbacks == InitCallbacks /\ [][Next]_vars

---------------------------------------------------------------------------
(* The reassembler on its own: a byte stream, cut into spans in every way,   *)
(* is fed span by span to libtwirc_process_data of a connected state with an *)
(* empty backlog.                                                            *)

Bytes == {"a", CR, LF, NUL}

RECURSIVE SeqsUpTo(_, _)
SeqsUpTo(A, n) ==
    IF n = 0 THEN {<<>>}
    ELSE LET shorter == SeqsUpTo(A, n - 1)
         IN  shorter \cup {Append(q, c) : q \in {x \in shorter : Len(x) = n - 1}, c \in A}

InitData ==
    /\ status = TWIRC_STATUS_CONNECTED + TWIRC_STATUS_AUTHENTICATING
    /\ running = 0
    /\ buffer = <<>>
    /\ callbacks = twirc_init_callbacks
    /\ net = "open"
    /\ wire \in SeqsUpTo(Bytes, MaxStream) \ {<<>>}
    /\ pc = "idle"
    /\ ev = {}
    /\ log = <<>>
    /\ rx = <<>>
    /\ fault = FALSE
    /\ budget = [lines |-> 0, vocab |-> {}, connects |-> 0, tables |-> 0, handlers |-> {}, loops |-> 0, direct |-> FALSE, disconnects |-> 0, zeroed |-> FALSE]
    /\ spans = <<>>
    /\ looping = FALSE

(* A call libtwirc_process_data(state, buf, n) on the next n bytes. *)
Feed ==
    /\ ~fault
    /\ \E n \in 1..Min2(Len(wire), TWIRC_BUFFER_SIZE - 1) :
        /\ Commit(libtwirc_process_data(S, Take(wire, n), n))
        /\ rx' = rx \o Take(wire, n)
        /\ spans' = Append(spans, Take(wire, n))
        /\ wire' = Drop(wire, n)
    /\ UNCHANGED <<pc, ev, budget, looping>>

SpecData == InitData /\ [][Feed]_vars

---------------------------------------------------------------------------
(* The decoder on its own: one complete line, of the shapes below, arrives   *)
(* in one span and is handed to libtwirc_process_data.                       *)

(* Length of the tag values of SpecDecode. *)
MaxValue == 3

(* The characters of a tag value: a letter, the backslash, and second        *)
(* characters of escapes that are known (s, :, r) and unknown (a).           *)
ValBytes == {"a", "\\", "s", ":", "r"}
TagValues == SeqsUpTo(ValBytes, MaxValue)

(* Tag strings: a bare key, a key with '=', a key with every value, and      *)
(* several tags.                                                             *)
TagStrs ==
    {<<"k">>, <<"k", "=">>}
    \cup {<<"k", "=">> \o v : v \in TagValues \ {<<>>}}
    \cup {<<"k", "=", "a", "a", ";", "j">>, <<"j", ";", "k", "=">>,
          <<"j", "=", "a", "a", ";", "k", ";", "i", "=", "s", "s">>}
TagBlocks == {<<>>} \cup {<<"@">> \o t \o <<SP>> : t \in TagStrs}
FewTagBlocks == {<<>>, <<"@", "k", "=", "a", "a", SP>>}

Prefixes == {<<>>, <<":", "n", "!", "u", SP>>, <<":", "h", SP>>, <<":", "!", "u", SP>>,
             <<":", "n", "!", "u", "!", "v", SP>>}

(* Command and parameters: commands of length 0 to 4 without a space, and    *)
(* parameter lists with and without a trailing parameter.                    *)
Tails ==
    {<<>>, <<"P">>, <<"P", "I">>, <<"P", "I", "N">>, <<"P", "I", "N", "G">>,
     <<"C", SP>>,
     <<"C", SP, "a">>,
     <<"C", SP, "a", SP, "b">>,
     <<"C", SP, ":", "t", SP, "u">>,
     <<"C", SP, "a", SP, ":", "t", SP, "u">>,
     <<"C", SP, "a", SP, ":", "t", SP, ":", "u">>,
     <<"C", SP, "a", SP, "b", "b", SP, ":", "t">>,
     <<"C", SP, "a", ":", "b", SP, "c">>,
     <<"C", SP, "x", SP, "a", ":", "b", SP, "c">>,
     <<"C", SP, "a", SP, ":">>}

(* Lines with a tag block or a prefix that no space follows. *)
NoSpaceLines == {<<"@", "k">>, <<":", "h">>, <<"@", "k", SP, ":", "h">>}

DecodeLines ==
    ({t \o <<"C">> : t \in TagBlocks}
     \cup {t \o p \o c : t \in FewTagBlocks, p \in Prefixes, c \in Tails}
     \cup NoSpaceLines) \ {<<>>}

InitDecode ==
    /\ status = TWIRC_STATUS_CONNECTED + TWIRC_STATUS_AUTHENTICATING
    /\ running = 0
    /\ buffer = <<>>
    /\ callbacks = twirc_init_callbacks
    /\ net = "open"
    /\ wire \in {line \o CRLF : line \in DecodeLines}
    /\ pc = "idle"
    /\ ev = {}
    /\ log = <<>>
    /\ rx = <<>>
    /\ fault = FALSE
    /\ budget = [lines |-> 0, vocab |-> {}, connects |-> 0, tables |-> 0, handlers |-> {}, loops |-> 0, direct |-> FALSE, disconnects |-> 0, zeroed |-> FALSE]
    /\ spans = <<>>
    /\ looping = FALSE

(* A call libtwirc_process_data(state, buf, n) on the whole line. *)
FeedLine ==
    /\ ~fault
    /\ wire # <<>>
    /\ Len(wire) <= TWIRC_BUFFER_SIZE - 1
    /\ Commit(libtwirc_process_data(S, wire, Len(wire)))
    /\ rx' = rx \o wire
    /\ spans' = Append(spans, wire)
    /\ wire' = <<>>
    /\ UNCHANGED <<pc, ev, budget, looping>>

SpecDecode == InitDecode /\ [][FeedLine]_vars

---------------------------------------------------------------------------
(* The decoder on lines with many tags and parameters.                      *)

(* Tags and parameters of the longest line of SpecGrowth. *)
MaxTags == 37
MaxParams == 17

Digits == <<"0", "1", "2", "3", "4", "5", "6", "7", "8", "9">>
(* The name of entry i: its two decimal digits. *)
Name(i) == <<Digits[(i \div 10) + 1], Digits[(i % 10) + 1]>>

RECURSIVE TagString(_)
TagString(n) ==
    IF n = 0 THEN <<>>
    ELSE (IF n = 1 THEN <<>> ELSE TagString(n - 1) \o <<";">>) \o Name(n) \o <<"=", "v", "v">>

(* Parameter i is one letter. *)
Letters == <<"a", "b", "c", "d", "e", "f", "g", "h", "i", "j", "k", "l", "m", "n", "o", "p", "q", "r", "s", "t">>

RECURSIVE ParamString_of(_)
ParamString_of(m) ==
    IF m = 0 THEN <<>> ELSE ParamString_of(m - 1) \o <<SP, Letters[m]>>

(* The line with n tags and m parameters. *)
GrowthLine(n, m) ==
    (IF n = 0 THEN <<>> ELSE <<"@">> \o TagString(n) \o <<SP>>) \o <<"C">> \o ParamString_of(m)

InitGrowth ==
    /\ status = TWIRC_STATUS_CONNECTED + TWIRC_STATUS_AUTHENTICATING
    /\ running = 0
    /\ buffer = <<>>
    /\ callbacks = twirc_init_callbacks
    /\ net = "open"
    /\ wire \in {GrowthLine(n, m) \o CRLF : n \in 0..MaxTags, m \in 0..MaxParams}
    /\ pc = "idle"
    /\ ev = {}
    /\ log = <<>>
    /\ rx = <<>>
    /\ fault = FALSE
    /\ budget = [lines |-> 0, vocab |-> {}, connects |-> 0, tables |-> 0, handlers |-> {}, loops |-> 0, direct |-> FALSE, disconnects |-> 0, zeroed |-> FALSE]
    /\ spans = <<>>
    /\ looping = FALSE

SpecGrowth == InitGrowth /\ [][FeedLine]_vars

(* The reassembler on long streams: receives of up to TWIRC_BUFFER_SIZE - 1  *)
(* bytes of streams with a late CR LF or none at all.                        *)

(* Calls of libtwirc_process_data in one run of SpecFlood. *)
MaxFeeds == 4

(* n bytes that are neither CR, LF nor NUL. *)
As(n) == [i \in 1..n |-> "a"]

FloodLengths ==
    {TWIRC_MESSAGE_SIZE - 2, TWIRC_MESSAGE_SIZE - 1, TWIRC_MESSAGE_SIZE,
     2 * TWIRC_MESSAGE_SIZE - 2, 3 * (TWIRC_BUFFER_SIZE - 1)}
FloodStreams == {As(n) \o t : n \in FloodLengths, t \in {<<>>, CRLF, CRLF \o <<"a">>}}

(* The numbers of bytes twirc_recv delivers in SpecFlood. *)
FloodSpans == {1, TWIRC_BUFFER_SIZE - 2, TWIRC_BUFFER_SIZE - 1}

InitFlood ==
    /\ status = TWIRC_STATUS_CONNECTED + TWIRC_STATUS_AUTHENTICATING
    /\ running = 0
    /\ buffer = <<>>
    /\ callbacks = twirc_init_callbacks
    /\ net = "open"
    /\ wire \in FloodStreams
    /\ pc = "idle"
    /\ ev = {}
    /\ log = <<>>
    /\ rx = <<>>
    /\ fault = FALSE
    /\ budget = [lines |-> 0, vocab |-> {}, connects |-> 0, tables |-> 0, handlers |-> {}, loops |-> 0, direct |-> FALSE, disconnects |-> 0, zeroed |-> FALSE]
    /\ spans = <<>>
    /\ looping = FALSE

(* A call libtwirc_process_data(state, buf, n) on the next n bytes, n one of *)
(* FloodSpans or all that is left.                                           *)
FeedSpan ==
    /\ ~fault
    /\ Len(spans) < MaxFeeds
    /\ \E n \in FloodSpans \cup {Len(wire)} :
        /\ 1 <= n /\ n <= Len(wire) /\ n <= TWIRC_BUFFER_SIZE - 1
        /\ Commit(libtwirc_process_data(S, Take(wire, n), n))
        /\ rx' = rx \o Take(wire, n)
        /\ spans' = Append(spans, Take(wire, n))
        /\ wire' = Drop(wire, n)
    /\ UNCHANGED <<pc, ev, budget, looping>>

SpecFlood == InitFlood /\ [][FeedSpan]_vars

(* Properties of the reassembler, under SpecData.                            *)

Range(f) == {f[i] : i \in DOMAIN f}

(* The messages handed to libtwirc_process_msg, in the order of the calls. *)
Dispatched(l) ==
    LET IsMsg(e) == e.k = "msg"
        msgs == SelectSeq(l, IsMsg)
    IN  [i \in 1..Len(msgs) |-> msgs[i].m]

(* p and q are the two parts of m CR LF, for a non-empty message m without  *)
(* NUL and without CR LF.                                                   *)
IsSplit(p, q) ==
    LET w == p \o q
        m == Take(w, Len(w) - 2)
    IN  /\ p # <<>> /\ q # <<>>
        /\ Len(w) >= 3
        /\ Drop(w, Len(w) - 2) = CRLF
        /\ NUL \notin Range(m)
        /\ strstr(m, CRLF) = -1

(* C1: with an empty backlog at the start, when m CR LF arrives cut into two *)
(* non-empty spans at any position, the call on the first span dispatches no *)
(* message, and the call on the second dispatches exactly m, once, and       *)
(* leaves the backlog empty.                                                 *)
C1_SplitReadReassembled ==
    /\ (Len(spans) = 1 /\ IsSplit(spans[1], wire)) =>
           (Dispatched(log) = <<>> /\ ~fault)
    /\ (Len(spans) = 2 /\ IsSplit(spans[1], spans[2])) =>
           /\ Dispatched(log) = <<Take(rx, Len(rx) - 2)>>
           /\ buffer = <<>>
           /\ ~fault

(* m CR LF has arrived cut between the CR and the LF, and m was dispatched. *)
C1_Witness ==
    /\ Len(spans) = 2 /\ IsSplit(spans[1], spans[2])
    /\ spans[1][Len(spans[1])] = CR /\ spans[2] = <<LF>>
    /\ Len(rx) >= 4
    /\ Dispatched(log) = <<Take(rx, Len(rx) - 2)>>

(* C2: after every call of libtwirc_process_data the backlog holds no        *)
(* CR LF: every complete message was taken out in that call.                 *)
C2_NoTerminatorLeft ==
    spans # <<>> => strstr(buffer, CRLF) = -1

(* libtwirc_process_data on the whole received stream as one span, from the *)
(* empty backlog.                                                           *)
FedAtOnce ==
    libtwirc_process_data([S EXCEPT !.buffer = <<>>, !.log = <<>>, !.fault = FALSE],
                          rx, Len(rx))

(* C3: once the whole stream has been fed, the messages dispatched and the   *)
(* backlog are those of feeding the same stream as a single span: the cuts   *)
(* make no difference.                                                       *)
C3_CutsMakeNoDifference ==
    wire = <<>> =>
        /\ Dispatched(log) = Dispatched(FedAtOnce.log)
        /\ buffer = FedAtOnce.buffer

---------------------------------------------------------------------------
(* Properties of the connection, under Spec and SpecReconnect.  The log and  *)
(* rx cover the current connection attempt.                                  *)

(* The lines a byte stream holds, in the order of their terminators. *)
RECURSIVE Terminated(_)
Terminated(str) ==
    LET at == strstr(str, CRLF)
    IN  IF at = -1 THEN <<>>
        ELSE <<Take(str, at)>> \o Terminated(Drop(str, at + 2))

NotNul(c) == c # NUL
NonEmpty(m) == m # <<>>

(* The messages that have arrived: the non-empty lines of the received       *)
(* stream without its NUL bytes.                                             *)
Arrived == SelectSeq(Terminated(SelectSeq(rx, NotNul)), NonEmpty)

(* The index of the last message handed to libtwirc_process_msg before      *)
(* entry j of the log, 0 if there is none.                                  *)
LastMsgBefore(j) ==
    LET before == {i \in 1..(j - 1) : log[i].k = "msg"}
    IN  IF before = {} THEN 0 ELSE CHOOSE i \in before : \A h \in before : h <= i

IsEventCb(e) == e.k = "cb" /\ e.slot # "connect"

(* C4: the messages are dispatched in the order in which their terminators   *)
(* arrived, each one once, and the handler of a message runs before the next *)
(* message is decoded: the i-th message dispatched is the i-th message that  *)
(* has arrived, and every event callback belongs to the message decoded      *)
(* last, which has no other callback.                                        *)
C4_DispatchInArrivalOrder ==
    LET d == Dispatched(log)
        t == Arrived
    IN  /\ Len(d) <= Len(t)
        /\ \A i \in 1..Len(d) : d[i] = t[i]
        /\ \A j \in 1..Len(log) : IsEventCb(log[j]) =>
               LET i == LastMsgBefore(j)
               IN  /\ i > 0
                   /\ log[j].m = ParseMsg(log[i].m).command
                   /\ \A h \in (i + 1)..(j - 1) : ~IsEventCb(log[h])

(* A ping and then a welcome have arrived and were dispatched in that order, *)
(* each with its callback.                                                   *)
C4_Witness ==
    /\ Dispatched(log) = <<L_PING, L_WELCOME>>
    /\ Len(SelectSeq(log, IsEventCb)) = 2

H_CAPS == <<S_REQ_TAGS \o CRLF, S_REQ_MEMBERSHIP \o CRLF, S_REQ_COMMANDS \o CRLF>>
H_PASS == S_PASS \o Login.pass \o CRLF
H_NICK == S_NICK \o Login.nick \o CRLF

IsHandshakeSend(e) == e.k = "send" /\ e.m \in (Range(H_CAPS) \cup {H_PASS, H_NICK})
IsConnectCb(e) == e.k = "cb" /\ e.slot = "connect"

(* What the entries l of a log sent of the handshake. *)
HandshakeSends(l) ==
    LET hs == SelectSeq(l, IsHandshakeSend)
    IN  [i \in 1..Len(hs) |-> hs[i].m]

(* The entries a step has added to the log. *)
NewEntries == SubSeq(log', Len(log) + 1, Len(log'))

(* A step in which libtwirc_handle_event has made the transition from       *)
(* Connecting: the step that adds the connect callback to the log.          *)
TransitionStep ==
    /\ Len(log') > Len(log) /\ Take(log', Len(log)) = log
    /\ \E i \in 1..Len(NewEntries) : IsConnectCb(NewEntries[i])

(* C5 as stated: the writable notification handled while Connecting leaves   *)
(* the state exactly Connected|Authenticating and sends the three capability *)
(* requests, PASS and NICK in this order.                                    *)
C5_AsStated ==
    [][TransitionStep =>
          /\ status' = TWIRC_STATUS_CONNECTED + TWIRC_STATUS_AUTHENTICATING
          /\ HandshakeSends(NewEntries) = H_CAPS \o <<H_PASS, H_NICK>>]_vars

(* C5: the writable notification handled while Connecting sends the three    *)
(* capability requests (tags, membership, commands), then PASS, and then     *)
(* NICK unless the send of PASS has failed; the status is exactly Connected  *)
(* from the first of these sends on and exactly Connected|Authenticating     *)
(* when the connect callback is invoked right after the last; nothing else   *)
(* of the handshake is sent in the attempt.                                  *)
C5_HandshakeOnWritable ==
    /\ \A j \in 1..Len(log) : IsConnectCb(log[j]) =>
           LET n == IF j > 1 /\ log[j - 1].m = H_NICK THEN 5 ELSE 4
               sent == SubSeq(log, j - n, j - 1)
           IN  /\ j > n
               /\ log[j].st = TWIRC_STATUS_CONNECTED + TWIRC_STATUS_AUTHENTICATING
               /\ \A i \in 1..n : sent[i].k = "send" /\ sent[i].st = TWIRC_STATUS_CONNECTED
               /\ [i \in 1..n |-> sent[i].m] = Take(H_CAPS \o <<H_PASS, H_NICK>>, n)
               /\ n = 4 <=> sent[4].ret = -1
               /\ HandshakeSends(log) = [i \in 1..n |-> sent[i].m]
    /\ HandshakeSends(log) # <<>> => \E j \in 1..Len(log) : IsConnectCb(log[j])

(* The handshake has just been made, with all five sends, and the state is   *)
(* Connected|Authenticating.                                                 *)
C5_Witness ==
    /\ log # <<>> /\ IsConnectCb(log[Len(log)])
    /\ HandshakeSends(log) = H_CAPS \o <<H_PASS, H_NICK>>
    /\ status = TWIRC_STATUS_CONNECTED + TWIRC_STATUS_AUTHENTICATING

IsPassSend(e) == e.k = "send" /\ e.m = H_PASS

(* C6: no message of the server is decoded before the handshake has been     *)
(* sent, also when one notification reports the socket readable and writable *)
(* at once: while such a notification is handled, every message in the log   *)
(* comes after the credentials.                                              *)
C6_HandshakeBeforeReplies ==
    (pc = "drain" /\ ev = {"IN", "OUT"}) =>
        \A j \in 1..Len(log) : log[j].k = "msg" =>
            \E i \in 1..(j - 1) : IsPassSend(log[i])

(* C7: in one connection attempt the transition from Connecting is made at   *)
(* most once: the connect callback is invoked at most once and no line of    *)
(* the handshake is sent twice; and a writable notification handled without  *)
(* Connecting in the state sends nothing, invokes nothing and changes no     *)
(* flag.                                                                     *)
C7_OneHandshakePerAttempt ==
    /\ Len(SelectSeq(log, IsConnectCb)) <= 1
    /\ \A i, j \in 1..Len(log) :
           (IsHandshakeSend(log[i]) /\ i # j) => log[i].m # log[j].m
    /\ ~HasFlag(status, TWIRC_STATUS_CONNECTING) =>
           \A pass_ret \in {0, -1} : HandleTail(S, {"OUT"}, pass_ret) = S

(* A second call of twirc_connect has succeeded, its handshake is done and   *)
(* the socket can be reported writable again.                                *)
C7_Witness ==
    /\ budget.connects = 0
    /\ \E j \in 1..Len(log) : IsConnectCb(log[j])
    /\ status = TWIRC_STATUS_CONNECTED + TWIRC_STATUS_AUTHENTICATING
    /\ net = "open" /\ pc = "idle"

(* C8: Authenticating or Authenticated in the state implies Connected. *)
C8_AuthImpliesConnected ==
    (HasFlag(status, TWIRC_STATUS_AUTHENTICATING) \/ HasFlag(status, TWIRC_STATUS_AUTHENTICATED))
        => HasFlag(status, TWIRC_STATUS_CONNECTED)

IsWelcomeMsg(e) == e.k = "msg" /\ ParseMsg(e.m).command = S_001

(* C9: a 001 message dispatched while the state holds Authenticating is      *)
(* followed at once by the welcome callback, invoked with the state the      *)
(* message found plus Authenticated.                                         *)
C9_WelcomeSetsAuthenticated ==
    \A j \in 1..Len(log) :
        (IsWelcomeMsg(log[j]) /\ HasFlag(log[j].st, TWIRC_STATUS_AUTHENTICATING)) =>
            /\ j < Len(log)
            /\ log[j + 1] = Entry("cb", S_001, "welcome",
                                  SetFlag(log[j].st, TWIRC_STATUS_AUTHENTICATED), 0)

(* A 001 has found the state Connected|Authenticating and the welcome        *)
(* callback has seen Connected|Authenticating|Authenticated.                 *)
C9_Witness ==
    \E j \in 1..(Len(log) - 1) :
        /\ IsWelcomeMsg(log[j])
        /\ log[j].st = TWIRC_STATUS_CONNECTED + TWIRC_STATUS_AUTHENTICATING
        /\ log[j + 1].slot = "welcome"
        /\ log[j + 1].st = TWIRC_STATUS_CONNECTED + TWIRC_STATUS_AUTHENTICATING
                              + TWIRC_STATUS_AUTHENTICATED

IsGlobalUserStateMsg(e) == e.k = "msg" /\ ParseMsg(e.m).command = S_GLOBALUSERSTATE

(* C10: when a GLOBALUSERSTATE message has been dispatched while the state   *)
(* held Authenticating, the state holds Authenticated: in the recv loop,     *)
(* with that message the last thing in the log, Authenticated is set.        *)
C10_GlobalUserStateSetsAuthenticated ==
    (pc = "drain" /\ log # <<>> /\ IsGlobalUserStateMsg(log[Len(log)])
       /\ HasFlag(log[Len(log)].st, TWIRC_STATUS_AUTHENTICATING))
        => HasFlag(status, TWIRC_STATUS_AUTHENTICATED)


(***************************************************************************)
(* C11.  A hang-up or error notification ends the connection whatever the  *)
(* state is: for every mask with EPOLLRDHUP, EPOLLHUP or EPOLLERR, with or *)
(* without EPOLLOUT, libtwirc_handle_event leaves the status exactly       *)
(* TWIRC_STATUS_DISCONNECTED and state->running cleared, and returns -1,   *)
(* which is what twirc_tick returns.                                       *)
(***************************************************************************)
HangupMasks == {m \in SUBSET (EpollEvents \ {"IN"}) : m \cap {"RDHUP", "HUP", "ERR"} # {}}

C11_HangupDisconnects ==
    ~fault =>
        \A m \in HangupMasks, pass_ret \in {0, -1} :
            LET r == HandleTail(S, m, pass_ret)
            IN  ~r.fault =>
                    /\ r.status = TWIRC_STATUS_DISCONNECTED
                    /\ r.running = 0
                    /\ r.ret = -1

(* The peer has hung up on an authenticated connection whose caller calls  *)
(* twirc_tick itself, and the tick that was told so has returned.          *)
C11_Witness ==
    /\ net = "hup" /\ pc = "idle" /\ ~looping /\ budget.loops > 0
    /\ \E i \in 1..Len(log) : HasFlag(log[i].st, TWIRC_STATUS_AUTHENTICATED)
    /\ status = TWIRC_STATUS_DISCONNECTED /\ running = 0

(***************************************************************************)
(* C12.  When the readiness wait of twirc_tick fails, the call leaves      *)
(* state->running cleared and the status TWIRC_STATUS_DISCONNECTED.        *)
(***************************************************************************)
C12_WaitFailureDisconnects ==
    TickBegins =>
        LET r == twirc_tick_wait_failed(S)
        IN  /\ r.running = 0
            /\ r.ret = -1
            /\ r.status = TWIRC_STATUS_DISCONNECTED

(***************************************************************************)
(* C13.  twirc_loop terminates once the connection has been closed: when   *)
(* a callback has called twirc_disconnect inside twirc_loop, the loop      *)
(* returns.                                                                *)
(***************************************************************************)
IsQuitSend(e) == e.k = "send" /\ e.m = S_QUIT \o CRLF

ClosedByCallback ==
    /\ looping
    /\ net = "closed" /\ status = TWIRC_STATUS_DISCONNECTED
    /\ \E i \in 1..Len(log) : IsQuitSend(log[i])

C13_LoopReturnsAfterDisconnect == ClosedByCallback ~> ~looping

C15_DisconnectAlwaysCloses ==
    \A quit_ret \in {0, -1}, close_ret \in {0, -1} :
        LET r == twirc_disconnect(S, quit_ret, close_ret)
            n == Len(log)
        IN  /\ Len(r.log) = n + 2 /\ Take(r.log, n) = log
            /\ IsQuitSend(r.log[n + 1]) /\ r.log[n + 1].ret = quit_ret
            /\ r.log[n + 1].st = status
            /\ r.log[n + 2].k = "close" /\ r.log[n + 2].st = status
            /\ r.net = "closed"
            /\ r.status = TWIRC_STATUS_DISCONNECTED
            /\ r.ret = close_ret
            /\ [r EXCEPT !.log = log, !.net = net, !.status = status, !.ret = 0] = S

(* The caller has called twirc_disconnect on an authenticated connection   *)
(* the peer had hung up on: QUIT could not be sent, the socket is closed   *)
(* and the status is Disconnected.                                         *)
C15_Witness ==
    /\ Len(log) >= 2
    /\ IsQuitSend(log[Len(log) - 1]) /\ log[Len(log) - 1].ret = -1
    /\ HasFlag(log[Len(log) - 1].st, TWIRC_STATUS_AUTHENTICATED)
    /\ log[Len(log)].k = "close"
    /\ budget.disconnects = 0
    /\ net = "closed" /\ status = TWIRC_STATUS_DISCONNECTED

(***************************************************************************)
(* C16.  A call of twirc_connect made while the status is not              *)
(* TWIRC_STATUS_DISCONNECTED does not move the state to Connecting: it     *)
(* leaves the status flags as they are.                                    *)
(***************************************************************************)
ConnectStep == budget'.connects # budget.connects

C16_ConnectRefusedWhenConnected ==
    [][(ConnectStep /\ status # TWIRC_STATUS_DISCONNECTED) => status' = status]_vars

(***************************************************************************)
(* C17.  twirc_connect sets the status to Connecting if and only if it     *)
(* returns 0.  When the descriptor or the epoll instance cannot be         *)
(* created, the descriptor cannot be registered, the connection attempt    *)
(* fails or the address does not resolve, it returns a negative value and  *)
(* leaves the status flags as they were.                                   *)
(***************************************************************************)
C17_ConnectingIffZero ==
    \A setup \in {0, -3, -4, -5}, con \in {0, -1, -2} :
        LET r == twirc_connect(S, setup, con)
        IN  /\ r.ret = (IF setup # 0 THEN setup ELSE con)
            /\ r.ret = 0 => r.status = TWIRC_STATUS_CONNECTING
            /\ r.ret # 0 => r.ret < 0 /\ r.status = status

(* A second call of twirc_connect, made when the handshake of the first    *)
(* was done, has failed: the socket is gone and the flags are as before.   *)
C17_Witness ==
    /\ budget.connects = 0 /\ pc = "idle"
    /\ net = "closed"
    /\ status = TWIRC_STATUS_CONNECTED + TWIRC_STATUS_AUTHENTICATING

(***************************************************************************)
(* C18.  Every decoded message whose command the dispatcher has no branch  *)
(* for is followed by one invocation of the unknown callback.              *)
(***************************************************************************)
(* The callback slot of the branch libtwirc_dispatch_evt takes for evt, "" *)
(* if it takes none.                                                       *)
Category(evt) ==
    IF evt.command = S_001 THEN "welcome"
    ELSE IF evt.command = S_JOIN THEN "join"
    ELSE IF evt.command = S_PING THEN "ping"
    ELSE IF evt.command = S_PRIVMSG /\ evt.num_params >= 2 THEN "privmsg"
    ELSE IF evt.command = S_CLEARCHAT THEN "clearchat"
    ELSE IF evt.command = S_WHISPER THEN "whisper"
    ELSE ""

(* The event callbacks in the log between message i and the next message. *)
CallbacksOf(i) ==
    LET later == {j \in (i + 1)..Len(log) : log[j].k = "msg"}
        end == IF later = {} THEN Len(log) + 1 ELSE CHOOSE j \in later : \A h \in later : j <= h
    IN  SelectSeq(SubSeq(log, i + 1, end - 1), IsEventCb)

C18_UnknownCallback ==
    \A i \in 1..Len(log) :
        (log[i].k = "msg" /\ ~ParseMsg(log[i].m).fault /\ Category(ParseMsg(log[i].m)) = "") =>
            /\ Len(CallbacksOf(i)) = 1
            /\ CallbacksOf(i)[1].slot = "unknown"

(***************************************************************************)
(* C19.  Every dispatched event with a recognized command (001, JOIN,      *)
(* PING, CLEARCHAT, WHISPER, PRIVMSG with two parameters or more and no    *)
(* CTCP payload) has exactly one callback invoked, once, of the slot of    *)
(* its command, after the internal action of the command: the welcome      *)
(* callback finds Authenticated set, the ping callback comes after the     *)
(* PONG.                                                                   *)
(***************************************************************************)
IsPongSend(e) == e.k = "send" /\ Take(e.m, 5) = <<"P", "O", "N", "G", SP>>

C19_OneCallbackPerCommand ==
    \A i \in 1..Len(log) :
        LET evt == ParseMsg(log[i].m)
            slot == Category(evt)
        IN  (/\ log[i].k = "msg" /\ ~evt.fault /\ slot # ""
             /\ slot = "privmsg" => ~IsCtcp(evt.params[1][2])) =>
                /\ ~fault
                /\ Len(CallbacksOf(i)) = 1
                /\ CallbacksOf(i)[1].slot = slot
                /\ slot = "welcome" => HasFlag(CallbacksOf(i)[1].st, TWIRC_STATUS_AUTHENTICATED)
                /\ slot = "ping" => /\ Len(log) >= i + 2
                                    /\ IsPongSend(log[i + 1])
                                    /\ log[i + 2].k = "cb"

(***************************************************************************)
(* C20.  Every complete PING line received, with an argument or without,   *)
(* is answered by exactly one PONG, sent before the next message is        *)
(* worked on, and the PONG carries the argument of the PING behind exactly *)
(* one ':'.                                                                *)
(***************************************************************************)
IsPingLine(l) == l = S_PING \/ Take(l, 5) = S_PING \o <<SP>>

(* The argument of a PING line without its ':'. *)
PingArgument(l) ==
    LET a == Drop(l, 5)
    IN  IF a # <<>> /\ a[1] = ":" THEN Drop(a, 1) ELSE a

C20_EveryPingAnswered ==
    \A i \in 1..Len(log) :
        (log[i].k = "msg" /\ IsPingLine(log[i].m)) =>
            LET later == {j \in (i + 1)..Len(log) : log[j].k = "msg"}
                end == IF later = {} THEN Len(log) + 1 ELSE CHOOSE j \in later : \A h \in later : j <= h
                pongs == SelectSeq(SubSeq(log, i + 1, end - 1), IsPongSend)
            IN  /\ Len(pongs) = 1
                /\ pongs[1].m = <<"P", "O", "N", "G", SP, ":">> \o PingArgument(log[i].m) \o CRLF

(***************************************************************************)
(* C21.  In every state after twirc_init, also after twirc_set_callbacks   *)
(* with a table of the caller in which slots were never assigned, every    *)
(* slot of state->callbacks holds a handler that can be called, and the    *)
(* dispatcher never calls an absent one.                                   *)
(***************************************************************************)
C21_EverySlotCallable ==
    /\ \A slot \in Slots : callbacks[slot] # "NULL"
    /\ \A i \in 1..Len(log) : log[i].k = "cb" => callbacks[log[i].slot] # "NULL"

---------------------------------------------------------------------------
(* Properties of the decoder, under SpecDecode.                              *)

(* The lines decoded so far whose decoding is defined. *)
DecodedLines == {m \in Range(Dispatched(log)) : ~ParseMsg(m).fault}

(* The tag tokens of a line that starts with '@' and holds a space, as they  *)
(* stand in the line.                                                        *)
RawTags(msg) == strtok_all(SubSeq(msg, 2, strstr(msg, <<SP>>)), ";")
RawKey(tag) == IF strstr(tag, <<"=">>) = -1 THEN tag ELSE Take(tag, strstr(tag, <<"=">>))
RawValue(tag) == IF strstr(tag, <<"=">>) = -1 THEN <<>> ELSE Drop(tag, strstr(tag, <<"=">>) + 1)

(* The decoding of a tag value as it is described: the five escapes, every   *)
(* other character copied, a lone backslash at the end dropped.              *)
RECURSIVE RefUnescape(_)
RefUnescape(val) ==
    IF val = <<>> THEN <<>>
    ELSE IF val[1] # "\\" THEN <<val[1]>> \o RefUnescape(Drop(val, 1))
    ELSE IF Len(val) = 1 THEN <<>>
    ELSE IF val[2] = ":" THEN <<";">> \o RefUnescape(Drop(val, 2))
    ELSE IF val[2] = "s" THEN <<SP>> \o RefUnescape(Drop(val, 2))
    ELSE IF val[2] = "\\" THEN <<"\\">> \o RefUnescape(Drop(val, 2))
    ELSE IF val[2] = "r" THEN <<CR>> \o RefUnescape(Drop(val, 2))
    ELSE IF val[2] = "n" THEN <<LF>> \o RefUnescape(Drop(val, 2))
    ELSE <<"\\">> \o RefUnescape(Drop(val, 1))

(***************************************************************************)
(* C22.  The value of every decoded tag is the described decoding of the   *)
(* value in the line: escapes replaced, every other character (the last    *)
(* one of the value too) copied, a lone backslash at the end dropped.      *)
(***************************************************************************)
C22_TagValueDecoded ==
    \A m \in DecodedLines :
        LET evt == ParseMsg(m)
        IN  evt.tags # NULL =>
                \A j \in 1..evt.num_tags :
                    evt.tags[1][j].value = RefUnescape(RawValue(RawTags(m)[j]))

(***************************************************************************)
(* C23.  The decoded tags are the tag tokens of the line in their order;   *)
(* the key of each is the token up to its first '=' (a token `key=` has    *)
(* the key `key`), the value of `key` and of `key=` is empty, and the      *)
(* value of `key=value` is the decoding of value.                          *)
(***************************************************************************)
C23_TagKeysAndOrder ==
    \A m \in DecodedLines :
        LET evt == ParseMsg(m)
            raw == RawTags(m)
        IN  evt.tags # NULL =>
                /\ evt.num_tags = Len(raw)
                /\ Len(evt.tags[1]) = Len(raw)
                /\ \A j \in 1..Len(raw) :
                    /\ evt.tags[1][j].key = RawKey(raw[j])
                    /\ evt.tags[1][j].value = RefUnescape(RawValue(raw[j]))
                    /\ RawValue(raw[j]) = <<>> => evt.tags[1][j].value = <<>>

(* What is left of a line after its tag block and its prefix. *)
Remainder(msg) == libtwirc_parse_prefix(libtwirc_parse_tags(msg).ret).ret

(* The text of str up to its first space, all of it when it holds none. *)
FirstToken(str) == IF strstr(str, <<SP>>) = -1 THEN str ELSE Take(str, strstr(str, <<SP>>))

(***************************************************************************)
(* C24.  The decoded command is the text after the tag block and the       *)
(* prefix up to the next space, and all of the remainder when no space     *)
(* follows, whatever the length of the remainder.                          *)
(***************************************************************************)
C24_CommandIsFirstToken ==
    \A m \in DecodedLines : ParseMsg(m).command = FirstToken(Remainder(m))

(* The text after the command and its space; NULL when no space follows     *)
(* the command.                                                             *)
ParamString(msg) ==
    LET rem == Remainder(msg)
    IN  IF strstr(rem, <<SP>>) = -1 THEN NULL ELSE Ptr(Drop(rem, strstr(rem, <<SP>>) + 1))

(* The parameters as they are described: the tokens between spaces, and     *)
(* from the first token that begins with ':' on the rest of the line, all   *)
(* of it, without the ':'.                                                  *)
RECURSIVE RefParams(_)
RefParams(str) ==
    IF str = <<>> THEN [toks |-> <<>>, trailing |-> FALSE]
    ELSE IF str[1] = ":" THEN [toks |-> <<Drop(str, 1)>>, trailing |-> TRUE]
    ELSE IF strstr(str, <<SP>>) = -1 THEN [toks |-> <<str>>, trailing |-> FALSE]
    ELSE LET rest == RefParams(Drop(str, strstr(str, <<SP>>) + 1))
         IN  [toks |-> <<Take(str, strstr(str, <<SP>>))>> \o rest.toks, trailing |-> rest.trailing]

ParamList(evt) == IF evt.params = NULL THEN <<>> ELSE evt.params[1]

(***************************************************************************)
(* C25.  The decoded parameters are the tokens between spaces after the    *)
(* command, in order; the first token that begins with ':' starts the      *)
(* trailing parameter, which is the rest of the line without the ':'; the  *)
(* trailing index is the index of that last parameter, and -1 without one. *)
(***************************************************************************)
C25_ParamsAndTrailing ==
    \A m \in DecodedLines :
        LET evt == ParseMsg(m)
            ref == IF ParamString(m) = NULL THEN RefParams(<<>>) ELSE RefParams(ParamString(m)[1])
        IN  /\ ParamList(evt) = ref.toks
            /\ evt.num_params = Len(ref.toks)
            /\ evt.trailing = IF ref.trailing THEN Len(ref.toks) - 1 ELSE -1



(***************************************************************************)
(* C26.  Under SpecGrowth: whatever the number of tags and of parameters   *)
(* of a line, below and above the initial sizes of the arrays (16 and 4)   *)
(* and over several enlargements, every tag and every parameter of the     *)
(* line is stored, in the order of the line, the counts are the numbers of *)
(* entries, no entry is written outside its array, and the array has a     *)
(* slot after the last entry, where the end marker is written.             *)
(***************************************************************************)
C26_GrowthPreservesData ==
    \A m \in Range(Dispatched(log)) :
        LET evt == ParseMsg(m)
            t   == libtwirc_parse_tags(m)
            a   == libtwirc_parse_params(libtwirc_parse_command(Remainder(m)).ret)
            raw == IF m[1] = "@" THEN RawTags(m) ELSE <<>>
            ref == IF ParamString(m) = NULL THEN <<>> ELSE RefParams(ParamString(m)[1]).toks
        IN  /\ ~evt.fault
            /\ evt.num_tags = Len(raw)
            /\ evt.tags # NULL =>
                /\ [j \in 1..Len(evt.tags[1]) |-> evt.tags[1][j].key] = [j \in 1..Len(raw) |-> RawKey(raw[j])]
                /\ t.cap > evt.num_tags
            /\ evt.num_params = Len(ref)
            /\ ParamList(evt) = ref
            /\ evt.params # NULL => a.cap > evt.num_params

(* A line whose tags and parameters made each array grow three times has    *)
(* been decoded.                                                            *)
C26_Witness ==
    /\ wire = <<>>
    /\ \E m \in DecodedLines :
        /\ ParseMsg(m).num_tags >= 2 * TWIRC_NUM_TAGS + 4
        /\ ParseMsg(m).num_params >= 4 * TWIRC_NUM_PARAMS
        /\ ParseMsg(m).tags[1][ParseMsg(m).num_tags].key = Name(ParseMsg(m).num_tags)
        /\ ParseMsg(m).params[1][ParseMsg(m).num_params] = <<Letters[ParseMsg(m).num_params]>>
(* What is left of a line after its tag block. *)
AfterTags(msg) == libtwirc_parse_tags(msg).ret

(***************************************************************************)
(* C27.  A line has a decoded prefix exactly when, after its tag block, it *)
(* starts with ':'; the prefix is the text between the ':' and the next    *)
(* space; the nickname is the part of the prefix before its first '!',     *)
(* and there is none without a prefix or without a '!' in it.              *)
(***************************************************************************)
C27_PrefixAndNick ==
    \A m \in DecodedLines :
        LET evt  == ParseMsg(m)
            rest == AfterTags(m)
            has  == rest # <<>> /\ rest[1] = ":"
            text == SubSeq(rest, 2, strstr(rest, <<SP>>))
        IN  /\ (evt.prefix # NULL) <=> has
            /\ has => evt.prefix = Ptr(text)
            /\ (has /\ \E k \in 1..Len(text) : text[k] = "!")
                => \E k \in 1..Len(text) :
                    /\ text[k] = "!"
                    /\ \A q \in 1..(k - 1) : text[q] # "!"
                    /\ evt.nick = Ptr(SubSeq(text, 1, k - 1))
            /\ ~(has /\ \E k \in 1..Len(text) : text[k] = "!") => evt.nick = NULL

(* Lines with a prefix that holds two '!', with one that holds none, and    *)
(* without a prefix have been decoded.                                      *)
C27_Witness ==
    /\ wire = <<>>
    /\ \E m \in DecodedLines :
        /\ ParseMsg(m).prefix = Ptr(<<"n", "!", "u", "!", "v">>)
        /\ ParseMsg(m).nick = Ptr(<<"n">>)
        /\ ParseMsg(m).tags # NULL

(***************************************************************************)
(* C29.  The decoding of every non-empty line completes without an access  *)
(* outside the line, also when the line starts with '@' or ':' and holds   *)
(* no space after the tag block or the prefix.                             *)
(***************************************************************************)
C29_DecodingNeverFails ==
    \A m \in Range(Dispatched(log)) : m # <<>> => ~ParseMsg(m).fault

(* The notifications that report the connection lost. *)
HangupFlags == {"RDHUP", "HUP", "ERR"}

(***************************************************************************)
(* C28.  twirc_tick returns -1 when the wait fails, when twirc_recv        *)
(* returns an error in the recv loop, and when the notification holds a    *)
(* hangup or a socket error; it returns 0 when nothing of this happens.    *)
(***************************************************************************)
C28_TickReturnValue ==
    /\ TickBegins => twirc_tick_wait_failed(S).ret = -1
    /\ TickBegins =>
        \A m \in SUBSET EpollEvents, pass_ret \in {0, -1} :
            ("IN" \notin m /\ ~HandleTail(S, m, pass_ret).fault) =>
                HandleTail(S, m, pass_ret).ret = IF m \cap HangupFlags # {} THEN -1 ELSE 0
    /\ (pc = "drain" /\ ~fault) =>
        \A bytes_received \in {0, -1}, pass_ret \in {0, -1} :
            ~RecvLoopEnds(S, ev, bytes_received, pass_ret).fault =>
                RecvLoopEnds(S, ev, bytes_received, pass_ret).ret
                    = IF bytes_received = -1 \/ ev \cap HangupFlags # {} THEN -1 ELSE 0

(***************************************************************************)
(* C30.  The step from Connecting to Connected takes Connecting out of the *)
(* status and puts Connected in; every other flag the status held before   *)
(* the step is in the status the connect callback is invoked with.         *)
(***************************************************************************)
C30_TransitionKeepsFlags ==
    [][TransitionStep =>
          \A i \in 1..Len(NewEntries) :
              IsConnectCb(NewEntries[i]) =>
                  /\ HasFlag(NewEntries[i].st, TWIRC_STATUS_CONNECTED)
                  /\ ~HasFlag(NewEntries[i].st, TWIRC_STATUS_CONNECTING)
                  /\ \A f \in {TWIRC_STATUS_AUTHENTICATING, TWIRC_STATUS_AUTHENTICATED} :
                         HasFlag(status, f) => HasFlag(NewEntries[i].st, f)]_vars

---------------------------------------------------------------------------
(* Further properties of the reassembler, under SpecData.                    *)

(***************************************************************************)
(* C31.  On a backlog that holds no CR LF, libtwirc_shift_token with the   *)
(* separator CR LF returns 0, copies no message and leaves the backlog as  *)
(* it is, and so does every further call; the extraction loop of           *)
(* libtwirc_process_data then dispatches nothing and changes nothing.      *)
(***************************************************************************)
C31_NoTerminatorNoToken ==
    (~fault /\ strstr(buffer, CRLF) = -1) =>
        LET r == libtwirc_shift_token(buffer, CRLF)
        IN  /\ r.ret = 0
            /\ r.dest = NULL
            /\ r.src = buffer
            /\ libtwirc_shift_token(r.src, CRLF) = r
            /\ ExtractLoop(S) = S

(* A call of libtwirc_process_data has left an incomplete message, with a   *)
(* CR at its end, in the backlog.                                           *)
C31_Witness ==
    /\ spans # <<>>
    /\ ~fault
    /\ Len(buffer) >= 2
    /\ buffer[Len(buffer)] = CR
    /\ strstr(buffer, CRLF) = -1

(***************************************************************************)
(* C32.  The append loop of libtwirc_process_data, on a span of len bytes  *)
(* with NUL bytes at any place, ends and leaves in the backlog what was in *)
(* it followed by the bytes of the span that are not NUL, in their order;  *)
(* it changes nothing else.                                                *)
(***************************************************************************)
C32_AppendKeepsAllBytes ==
    ~fault =>
        \A n \in 1..Len(wire) :
            LET span == Take(wire, n)
                r == AppendChunks(S, span, n, 0)
            IN  /\ r.buffer = buffer \o SelectSeq(span, NotNul)
                /\ [r EXCEPT !.buffer = buffer] = S

(* A span with a NUL at its start, two in its middle and one at its end has *)
(* been appended to a backlog that held an incomplete message.              *)
C32_Witness ==
    /\ Len(spans) = 2
    /\ spans[1] = <<"a">>
    /\ spans[2] = <<NUL, "a", NUL, NUL, "a">>
    /\ buffer = <<"a", "a", "a">>
    /\ wire = <<>>

(***************************************************************************)
(* C33.  A ':' inside a parameter, not at its start, does not start the    *)
(* trailing parameter: every parameter before the first token that begins  *)
(* with ':' is stored whole at its place, and a line without such a token  *)
(* has no trailing parameter.                                              *)
(***************************************************************************)
C33_OnlyLeadingColonStartsTrailing ==
    \A m \in DecodedLines :
        LET evt == ParseMsg(m)
            ref == IF ParamString(m) = NULL THEN RefParams(<<>>) ELSE RefParams(ParamString(m)[1])
            middle == IF ref.trailing THEN Len(ref.toks) - 1 ELSE Len(ref.toks)
        IN  /\ \A j \in 1..middle :
                (\E k \in 2..Len(ref.toks[j]) : ref.toks[j][k] = ":") =>
                    /\ j <= Len(ParamList(evt))
                    /\ ParamList(evt)[j] = ref.toks[j]
            /\ (~ref.trailing /\ \E j \in 1..middle : \E k \in 2..Len(ref.toks[j]) : ref.toks[j][k] = ":")
                   => evt.trailing = -1

(***************************************************************************)
(* C34.  Once twirc_disconnect has closed the connection (called by the    *)
(* caller or from a callback, with complete messages still in the          *)
(* backlog), no flag is set in the status until twirc_connect succeeds:    *)
(* everything the program does afterwards, it does with the status         *)
(* Disconnected, and the status stays Disconnected.                        *)
(***************************************************************************)
C34_DisconnectedIsStable ==
    \A i \in 1..Len(log) :
        log[i].k = "close" =>
            /\ \A j \in (i + 1)..Len(log) : log[j].st = TWIRC_STATUS_DISCONNECTED
            /\ status = TWIRC_STATUS_DISCONNECTED

(***************************************************************************)
(* C35.  After any receives of at most TWIRC_BUFFER_SIZE - 1 bytes each,   *)
(* with or without a CR LF in the stream, the backlog with its terminator  *)
(* takes no more than the 2 * TWIRC_MESSAGE_SIZE bytes of state->buffer.   *)
(***************************************************************************)
C35_BacklogBound == Len(buffer) + 1 <= 2 * TWIRC_MESSAGE_SIZE

(***************************************************************************)
(* C36.  The message libtwirc_process_data extracts from the backlog fits, *)
(* with its terminator, in msg[TWIRC_MESSAGE_SIZE]: whatever the next      *)
(* receive delivers, the token libtwirc_shift_token copies is shorter than *)
(* TWIRC_MESSAGE_SIZE.                                                     *)
(***************************************************************************)
C36_MessageFitsBuffer ==
    ~fault =>
        \A n \in FloodSpans \cup {Len(wire)} :
            (1 <= n /\ n <= Len(wire) /\ n <= TWIRC_BUFFER_SIZE - 1) =>
                LET a == AppendChunks(S, Take(wire, n), n, 0)
                IN  ~a.fault => libtwirc_shift_token(a.buffer, CRLF).ret < TWIRC_MESSAGE_SIZE

(***************************************************************************)
(* C37.  Whatever stcpnb_receive returns in the recv loop (bytes, 0, -1    *)
(* with a would-block, -1 with an error), twirc_recv writes to buf at the  *)
(* indices 0..len-1 only.                                                  *)
(***************************************************************************)
C37_RecvWritesInsideBuffer ==
    pc = "drain" =>
        \A res_len \in -1..Min2(Len(wire), TWIRC_BUFFER_SIZE - 1), errno \in Errnos :
            /\ twirc_recv(TWIRC_BUFFER_SIZE, res_len, errno).lo >= 0
            /\ twirc_recv(TWIRC_BUFFER_SIZE, res_len, errno).hi <= TWIRC_BUFFER_SIZE - 1

(***************************************************************************)
(* C38.  The trailing index of a decoded line is -1 or an index below the  *)
(* number of parameters, and the parameter at the index is the one the     *)
(* ':' at the start of a token introduced (the empty one after a ':' at    *)
(* the end of the line included).                                          *)
(***************************************************************************)
C38_TrailingIndexValid ==
    \A m \in DecodedLines :
        LET evt == ParseMsg(m)
            ref == IF ParamString(m) = NULL THEN RefParams(<<>>) ELSE RefParams(ParamString(m)[1])
        IN  /\ evt.trailing = -1 \/ (0 <= evt.trailing /\ evt.trailing < evt.num_params)
            /\ evt.trailing # -1 =>
                /\ ref.trailing
                /\ evt.trailing = Len(ref.toks) - 1
                /\ ParamList(evt)[evt.trailing + 1] = ref.toks[Len(ref.toks)]

(* The three kinds of step of a libtwirc_handle_event whose notification    *)
(* holds EPOLLIN and a hang-up or an error: it enters the recv loop, a      *)
(* round of the loop, the loop ends.                                        *)

HangupEnters ==
    (pc = "idle" /\ pc' = "drain" /\ ev' \cap HangupFlags # {}) =>
        /\ status' = status /\ running' = running
        /\ log' = log /\ buffer' = buffer

HangupRound ==
    (pc = "drain" /\ pc' = "drain" /\ ev \cap HangupFlags # {} /\ ~fault') =>
        /\ Len(log') >= Len(log) /\ SubSeq(log', 1, Len(log)) = log
        /\ Dispatched(NewEntries) # <<>> =>
               \E i \in 1..Len(NewEntries) :
                   /\ NewEntries[i].k = "msg" /\ NewEntries[i].st = status
                   /\ \A h \in 1..(i - 1) : NewEntries[h].k # "msg"
        /\ status' = TWIRC_STATUS_DISCONNECTED /\ status # TWIRC_STATUS_DISCONNECTED =>
               \E i \in 1..Len(NewEntries) : NewEntries[i].k = "close"

HangupEnds ==
    (pc = "drain" /\ pc' = "idle" /\ ev \cap HangupFlags # {} /\ ~fault') =>
        /\ status' = TWIRC_STATUS_DISCONNECTED /\ running' = 0
        /\ rx' = rx /\ buffer' = buffer
        /\ Dispatched(log') = Dispatched(log)

C40_NoReadOfAbsentParams ==
    \A i \in 1..Len(log) :
        LET evt == ParseMsg(log[i].m)
        IN  (log[i].k = "msg" /\ ~evt.fault /\ evt.params = NULL) =>
                ~libtwirc_dispatch_evt([S EXCEPT !.fault = FALSE, !.callbacks = twirc_init_callbacks], evt).fault
=============================================================================
